---- MODULE Spec2Model ----
(***************************************************************************)
(* A model of the dataflow-jit code generator: the synthesis of native row *)
(* layouts (codegen/layout.rs) and the lowering of row expressions         *)
(* (codegen/mod.rs).                                                       *)
(*                                                                         *)
(* Indices (columns, physical entries, bits) are 0-based as in the source; *)
(* a sequence s holds the element of index i at s[i + 1].                  *)
(***************************************************************************)
EXTENDS Integers, Sequences, FiniteSets, TLC

VARIABLES
    row_layout,   \* layout.rs: the RowLayout handed to Layout::from_row
    target,       \* layout.rs: TargetFrontendConfig, as its pointer_bytes()
    native,       \* layout.rs: the Layout returned by from_row, or NoLayout
    null_sigil,        \* CodegenConfig::null_sigil
    debug_assertions,  \* whether debug_assert! is compiled in
    args,              \* Function::args(): <<layout, expr_id, flags>> records
    null_column,         \* the column the function's IsNull and SetNull address
    garbage,           \* selects what memory holds before it is written
    body,              \* the expressions of the block body reached so far
    exprs,             \* Ctx::exprs: ExprId -> Value
    expr_layouts,      \* Ctx::expr_layouts: ExprId -> LayoutId
    stack_slots,       \* Ctx::stack_slots: ExprId -> StackSlot
    function_inputs,   \* Ctx::function_inputs: ExprId -> InputFlags
    insts,             \* the instructions emitted for each expression of body
    slots,             \* the sizes of the builder's stack slots
    nvalues,           \* the number of SSA values of the builder
    layouts,           \* NativeLayoutCache::layouts
    panicked,          \* an assertion of the lowering failed
    cache_log,         \* the requests a session made of its NativeLayoutCache
    signature,         \* the IR Signature handed to build_signature
    clif_sig,          \* the ClifSignature build_signature returned
    function_blocks,   \* Function::blocks(): BlockId -> terminator
    stack,             \* codegen_func: the blocks still to walk
    visited,           \* codegen_func: the blocks already walked
    ctx_blocks,        \* Ctx::blocks: BlockId -> ClifBlock
    sealed,            \* the ClifBlocks the builder sealed
    block_code,        \* the instructions of each ClifBlock
    finished,          \* the builder was finalized
    cast,              \* a Cast expression and what is_valid_cast said of it
    sizing,            \* from_row's running size, as a u32, and its loop
    heap,              \* the rows a Layout allocated and the allocator's calls
    layout2            \* the LayoutConfig and the outcome of from_row2

vars ==
    <<row_layout, target, native, null_sigil, debug_assertions, args,
      null_column,
      garbage, body, exprs, expr_layouts, stack_slots, function_inputs, insts,
      slots, nvalues, layouts, panicked, cache_log, signature, clif_sig,
      function_blocks, stack, visited, ctx_blocks, sealed, block_code,
      finished, cast, sizing, heap, layout2>>

\* build_signature's argument and result.
svars == <<signature, clif_sig>>

\* The state of the sessions on one function of Layout.
ovars == <<sizing, heap, layout2>>

\* The state of codegen_func's walk over the blocks.
wvars ==
    <<function_blocks, stack, visited, ctx_blocks, sealed, block_code,
      finished>>

----------------------------------------------------------------------------
(* Bounds of the model.                                                    *)

\* Columns of a row layout that are drawn freely.
MaxCols == 2

\* How many more times a nullable last column of a row layout may be repeated.
MaxRepeat == 9

\* Expressions of a block body.
MaxBody == 4

\* Requests made of a layout cache.
MaxRequests == 4

\* Blocks of a function.
MaxBlocks == 3

\* Arguments of a signature.
MaxArgs == 3

\* Expressions of a block body made of writes to rows only.
MaxWrites == 2

\* Constant expressions of a block body made of constants only.
MaxConsts == 2

\* Null-flag expressions of a block body that sets and tests several columns.
MaxFlagOps == 3

\* The images of memory that was not written yet.
ByteSeeds == {0, 255}

----------------------------------------------------------------------------
(* Machine integers.                                                       *)

RECURSIVE BitAndNot(_, _)
\* a & !b on unsigned integers of any width
BitAndNot(a, b) ==
    IF a = 0 THEN 0
    ELSE (IF a % 2 = 1 /\ b % 2 = 0 THEN 1 ELSE 0)
         + 2 * BitAndNot(a \div 2, b \div 2)

RECURSIVE BitAnd(_, _, _)
\* a & b on w-bit unsigned integers
BitAnd(a, b, w) ==
    IF w = 0 THEN 0
    ELSE (IF a % 2 = 1 /\ b % 2 = 1 THEN 1 ELSE 0)
         + 2 * BitAnd(a \div 2, b \div 2, w - 1)

RECURSIVE BitOr(_, _, _)
\* a | b on w-bit unsigned integers
BitOr(a, b, w) ==
    IF w = 0 THEN 0
    ELSE (IF a % 2 = 1 \/ b % 2 = 1 THEN 1 ELSE 0)
         + 2 * BitOr(a \div 2, b \div 2, w - 1)

\* !a on w-bit unsigned integers
BitNot(a, w) == (2 ^ w) - 1 - a

Max(a, b) == IF a >= b THEN a ELSE b

None == <<>>

Some(v) == <<v>>

----------------------------------------------------------------------------
(* Types.                                                                  *)

RowTypes ==
    {"Bool", "U16", "I16", "U32", "I32", "U64", "I64", "F32", "F64",
     "String", "Unit"}

Types ==
    {"U8", "I8", "U16", "I16", "U32", "I32", "U64", "I64", "F32", "F64",
     "Ptr", "Bool", "Usize"}

PointerWidths == {4, 8}

Type_size(ty, tgt) ==
    CASE ty \in {"Ptr", "Usize"} -> tgt
      [] ty \in {"U64", "I64", "F64"} -> 8
      [] ty \in {"U32", "I32", "F32"} -> 4
      [] ty \in {"U16", "I16"} -> 2
      [] ty \in {"U8", "I8", "Bool"} -> 1

Type_align(ty, tgt) ==
    CASE ty \in {"Ptr", "Usize"} -> tgt
      [] ty \in {"U64", "I64", "F64"} -> 8
      [] ty \in {"U32", "I32", "F32"} -> 4
      [] ty \in {"U16", "I16"} -> 2
      [] ty \in {"U8", "I8", "Bool"} -> 1

Type_bits(ty, tgt) ==
    CASE ty \in {"Ptr", "Usize"} -> 8 * tgt
      [] ty \in {"U64", "I64", "F64"} -> 64
      [] ty \in {"U32", "I32", "F32"} -> 32
      [] ty \in {"U16", "I16"} -> 16
      [] ty \in {"U8", "I8", "Bool"} -> 8

is_u8(ty) == ty = "U8"

\* The match of from_row on a non-Unit RowType.
row_type_to_type(row) ==
    CASE row = "String" -> "Ptr"
      [] OTHER -> row

----------------------------------------------------------------------------
(* Layout::from_row.                                                       *)

\* A u32 is held as <<high half, low half>> of 16 bits each.
Half == 65536

u32_from(n) == <<n \div Half, n % Half>>

\* a + n for a u32 a and 0 <= n < 2^16: the wrapped sum and whether the sum
\* went past 2^32 - 1.
u32_add(a, n) ==
    LET lo == a[2] + n
        hi == a[1] + (lo \div Half)
    IN  [value |-> <<hi % Half, lo % Half>>, overflow |-> hi >= Half]

\* u32::wrapping_sub of two u32.
u32_wrapping_sub(a, b) ==
    LET borrow == IF a[2] < b[2] THEN 1 ELSE 0
    IN  <<(a[1] - b[1] - borrow + Half) % Half, (a[2] - b[2] + Half) % Half>>

\* padding_needed_for on a u32 size and an alignment of at most 2^15: the
\* mask !(align - 1) keeps the high half and clears low bits of the low half.
padding_needed_for_u32(size, align) ==
    LET sum == u32_add(size, align).value
        less_one == u32_wrapping_sub(sum, u32_from(1))
        len_rounded_up == <<less_one[1], BitAndNot(less_one[2], align - 1)>>
    IN  u32_wrapping_sub(len_rounded_up, size)

\* The integer a u32 below 2^31 stands for.
u32_value(a) == a[1] * Half + a[2]

\* padding_needed_for returning the bytes past the last boundary.
padding_needed_for_remainder(size, align) == size % align

\* padding_needed_for on a size below 2^31, computed on the u32.
padding_needed_for(size, align) ==
    u32_value(padding_needed_for_u32(u32_from(size), align))

\* bits_to_bitflags giving every nullable column a byte of its own.
bits_to_bitflags_per_column(required_bitflags) == required_bitflags

\* The number of one-byte U8 bitflags for required_bitflags nullable columns.
bits_to_bitflags(required_bitflags) ==
    (required_bitflags \div 8) + (IF required_bitflags % 8 # 0 THEN 1 ELSE 0)

count_ones(rl) == Cardinality({i \in 1..Len(rl) : rl[i].nullable})

\* push_bitflag without size += 1.
push_bitflag_no_advance(st) ==
    [st EXCEPT !.bitflags = @ - 1,
               !.bitflag_indices = Append(@, st.index),
               !.offsets = Append(@, st.size),
               !.types = Append(@, "U8"),
               !.align = Max(@, 1),
               !.index = @ + 1]

\* One bitflag popped from the pool and pushed as a physical entry.
push_bitflag(st) ==
    [st EXCEPT !.bitflags = @ - 1,
               !.bitflag_indices = Append(@, st.index),
               !.offsets = Append(@, st.size),
               !.types = Append(@, "U8"),
               !.size = @ + 1,
               !.align = Max(@, 1),
               !.index = @ + 1]

\* The while loop over required_padding that never pops a bitflag.
fill_padding_none(st, required_padding) ==
    [st |-> st, required_padding |-> required_padding]

RECURSIVE fill_padding(_, _)
\* The while loop over required_padding: st with the padding bytes that the
\* pool could fill, and the padding that is left.
fill_padding(st, required_padding) ==
    IF required_padding # 0 /\ st.bitflags > 0
    THEN fill_padding(push_bitflag(st), required_padding - 1)
    ELSE [st |-> st, required_padding |-> required_padding]

\* place_column giving a Unit column a byte of its own.
place_column_unit_byte(st, row, tgt) ==
    IF row = "Unit"
    THEN [st EXCEPT !.offsets = Append(@, st.size),
                    !.size = @ + 1,
                    !.index_mappings = Append(@, st.index),
                    !.types = Append(@, "U8"),
                    !.index = @ + 1]
    ELSE LET ty == row_type_to_type(row)
             field_align == Type_align(ty, tgt)
             aligned == [st EXCEPT !.align = Max(@, field_align)]
             filled == fill_padding(aligned,
                                    padding_needed_for(aligned.size, field_align))
             s == filled.st
             at == s.size + filled.required_padding
         IN  [s EXCEPT !.offsets = Append(@, at),
                       !.size = at + Type_size(ty, tgt),
                       !.index_mappings = Append(@, s.index),
                       !.types = Append(@, ty),
                       !.index = @ + 1]

\* place_column mapping a Unit column one past the next physical entry.
place_column_unit_skewed(st, row, tgt) ==
    IF row = "Unit"
    THEN [st EXCEPT !.index_mappings = Append(@, st.index + 1)]
    ELSE LET ty == row_type_to_type(row)
             field_align == Type_align(ty, tgt)
             aligned == [st EXCEPT !.align = Max(@, field_align)]
             filled == fill_padding(aligned,
                                    padding_needed_for(aligned.size, field_align))
             s == filled.st
             at == s.size + filled.required_padding
         IN  [s EXCEPT !.offsets = Append(@, at),
                       !.size = at + Type_size(ty, tgt),
                       !.index_mappings = Append(@, s.index),
                       !.types = Append(@, ty),
                       !.index = @ + 1]

\* The body of the loop over layout.rows() for one column.
place_column(st, row, tgt) ==
    IF row = "Unit"
    THEN [st EXCEPT !.index_mappings = Append(@, st.index)]
    ELSE LET ty == row_type_to_type(row)
             field_align == Type_align(ty, tgt)
             aligned == [st EXCEPT !.align = Max(@, field_align)]
             filled == fill_padding(aligned,
                                    padding_needed_for(aligned.size, field_align))
             s == filled.st
             at == s.size + filled.required_padding
         IN  [s EXCEPT !.offsets = Append(@, at),
                       !.size = at + Type_size(ty, tgt),
                       !.index_mappings = Append(@, s.index),
                       !.types = Append(@, ty),
                       !.index = @ + 1]

RECURSIVE place_columns(_, _, _)
\* The loop over layout.rows(): every iteration pushes one index mapping, so
\* the row the iterator yields next is the one after the mappings pushed.
place_columns(st, rl, tgt) ==
    LET i == Len(st.index_mappings) + 1
    IN  IF i > Len(rl) THEN st
        ELSE place_columns(place_column(st, rl[i].ty, tgt), rl, tgt)

RECURSIVE push_remaining_bitflags(_)
\* The loop over the bitflags still in the pool after the last column.
push_remaining_bitflags(st) ==
    IF st.bitflags = 0 THEN st
    ELSE push_remaining_bitflags(push_bitflag(st))

\* flag_slot storing the ordinal of the bitflag instead of its physical index.
flag_slot_ordinal(st, flag_idx, bit_idx) == Some(<<flag_idx, bit_idx>>)

\* Some((bitflag_indices[flag_idx], bit_idx)): the pair stored for a column.
flag_slot(st, flag_idx, bit_idx) ==
    Some(<<st.bitflag_indices[flag_idx + 1], bit_idx>>)

RECURSIVE assign_bitflags(_, _, _, _, _, _)
\* The loop that gives every nullable column its (bitset index, bit) pair.
assign_bitflags(st, rl, i, flag_idx, bit_idx, tgt) ==
    IF i > Len(rl) THEN <<>>
    ELSE IF ~rl[i].nullable
         THEN <<None>> \o assign_bitflags(st, rl, i + 1, flag_idx, bit_idx, tgt)
         ELSE LET flag_offset == st.bitflag_indices[flag_idx + 1]
                  flag_bits == Type_bits(st.types[flag_offset + 1], tgt)
              IN  IF bit_idx < flag_bits
                  THEN <<flag_slot(st, flag_idx, bit_idx)>>
                       \o assign_bitflags(st, rl, i + 1, flag_idx, bit_idx + 1, tgt)
                  ELSE <<flag_slot(st, flag_idx + 1, 0)>>
                       \o assign_bitflags(st, rl, i + 1, flag_idx + 1, 0, tgt)

\* from_row without its final padding.
final_padding_none(st) == st

\* size += padding_needed_for(size, align), after the last bitflag.
final_padding(st) ==
    [st EXCEPT !.size = @ + padding_needed_for(@, st.align)]

from_row(rl, tgt) ==
    LET start == [index |-> 0, size |-> 0, align |-> 1,
                  offsets |-> <<>>, types |-> <<>>, index_mappings |-> <<>>,
                  bitflags |-> bits_to_bitflags(count_ones(rl)),
                  bitflag_indices |-> <<>>]
        placed == final_padding(
                      push_remaining_bitflags(place_columns(start, rl, tgt)))
    IN  [size |-> placed.size,
         align |-> placed.align,
         types |-> placed.types,
         offsets |-> placed.offsets,
         index_mappings |-> placed.index_mappings,
         bitflag_mappings |-> assign_bitflags(placed, rl, 1, 0, 0, tgt)]

----------------------------------------------------------------------------
(* Accessors of Layout.                                                    *)

is_nullable(l, column) == l.bitflag_mappings[column + 1] # None

offset_of(l, column) == l.offsets[l.index_mappings[column + 1] + 1]

type_of(l, column) == l.types[l.index_mappings[column + 1] + 1]

\* <<type, offset, bit>> of the column's null flag
nullability_of(l, column) ==
    LET m == l.bitflag_mappings[column + 1][1]
    IN  <<l.types[m[1] + 1], l.offsets[m[1] + 1], m[2]>>

is_zero_sized(l) == l.size = 0

----------------------------------------------------------------------------
(* The inputs of codegen_func and the state of its lowering context.       *)

NoLayout == [size |-> -1]

NullSigils == {"Zero", "One"}

is_zero(sigil) == sigil = "Zero"

is_one(sigil) == sigil = "One"

\* `null_sigil as u8`: the discriminant of the enum.
sigil_as_u8(sigil) == IF sigil = "One" THEN 1 ELSE 0

InputFlagsSet == {"none", "readonly"}

LayoutIds == {1, 2, 3}

\* A row layout with more nullable columns than a bitset byte has bits, for
\* the functions that work on two bitset bytes.
wide_layout == 4

\* LayoutCache::get: the row layouts of the session.
layout_cache_get(id) ==
    CASE id = 1 -> <<[ty |-> "U32", nullable |-> TRUE],
                     [ty |-> "U16", nullable |-> TRUE]>>
      [] id = 2 -> <<[ty |-> "Bool", nullable |-> TRUE]>>
      [] id = 3 -> <<[ty |-> "Unit", nullable |-> FALSE],
                     [ty |-> "Unit", nullable |-> FALSE]>>
      [] id = wide_layout ->
            [c \in 1..10 |-> [ty |-> "Bool", nullable |-> TRUE]]

\* The return layout of the function's signature.
signature_ret == 3

EmptyMap == [x \in {} |-> x]

\* Layout::from_row(&row_layout, &frontend_config) of every row layout of the
\* session, for each pointer width.
native_layout_of ==
    [id \in LayoutIds \cup {wide_layout} |->
        [tgt \in PointerWidths |-> from_row(layout_cache_get(id), tgt)]]

\* NativeLayoutCache::compute keeping no entry but the one asked for.
compute_evicting(ls, id) == (id :> native_layout_of[id][target])

\* NativeLayoutCache::compute: the cache after the call; the layout asked
\* for is compute(ls, id)[id].
compute(ls, id) ==
    IF id \in DOMAIN ls THEN ls
    ELSE ls @@ (id :> native_layout_of[id][target])

native_type(ty, tgt) ==
    CASE ty \in {"Ptr", "Usize"} -> IF tgt = 8 THEN "I64" ELSE "I32"
      [] ty \in {"U64", "I64"} -> "I64"
      [] ty \in {"U32", "I32"} -> "I32"
      [] ty = "F64" -> "F64"
      [] ty = "F32" -> "F32"
      [] ty \in {"U16", "I16"} -> "I16"
      [] ty \in {"U8", "I8", "Bool"} -> "I8"

\* Ctx::is_readonly answering false for every expression.
is_readonly_never(expr) == FALSE

\* Ctx::is_readonly
is_readonly(expr) ==
    expr \in DOMAIN function_inputs /\ function_inputs[expr] = "readonly"

\* Ctx::layout_id
layout_id(expr) == expr_layouts[expr]

\* The id of the expression of the block body that is lowered next.
next_expr_id == Len(args) + Len(body) + 1

\* The rows the lowering context knows: parameters and stack-slot rows.
Rows == DOMAIN expr_layouts

\* The expressions that hold a boolean value.
BoolExprs ==
    {body[k].id : k \in {j \in 1..Len(body) : body[j].kind \in {"Constant", "IsNull"}}}
    \cap DOMAIN exprs

MemFlags_new == {}

MemFlags_trusted == {"notrap", "aligned"}

\* MemFlags::trusted(), with set_readonly() for a readonly source.
load_flags(expr) ==
    IF is_readonly(expr) THEN MemFlags_trusted \cup {"readonly"}
    ELSE MemFlags_trusted

----------------------------------------------------------------------------
(* The instructions handed to the function builder.                        *)

\* FunctionBuilder::emit_small_memset: nothing for a size of 0, else stores
\* (or a call of memset) that write `size` bytes of `value` at `buffer`.
emit_small_memset(buffer, value, size, align, flags) ==
    IF size = 0 THEN <<>>
    ELSE <<[op |-> "memset", buffer |-> buffer, value |-> value,
            size |-> size, align |-> align, flags |-> flags]>>

\* FunctionBuilder::emit_small_memory_copy: nothing for a size of 0, else
\* loads followed by stores (or a call of memcpy) that copy `size` bytes.
emit_small_memory_copy(dest, src, size, dest_align, src_align, non_overlapping, flags) ==
    IF size = 0 THEN <<>>
    ELSE <<[op |-> "memcpy", dest |-> dest, src |-> src, size |-> size,
            dest_align |-> dest_align, src_align |-> src_align,
            non_overlapping |-> non_overlapping, flags |-> flags]>>

\* Ctx::iconst for a constant <<type, value>>, with result value res.
iconst(constant, res) ==
    [op |-> "iconst", res |-> res,
     ty |-> CASE constant[1] \in {"U32", "I32"} -> "I32"
              [] constant[1] \in {"U64", "I64"} -> "I64"
              [] constant[1] = "Bool" -> "I8",
     imm |-> IF constant[1] = "Bool"
             THEN (IF constant[2] THEN 1 ELSE 0)
             ELSE constant[2]]

\* Ctx::fconst for a constant <<type, value>>, with result value res.
fconst(constant, res) ==
    IF constant[1] = "F32"
    THEN [op |-> "f32const", res |-> res, ty |-> "F32", imm |-> constant[2]]
    ELSE [op |-> "f64const", res |-> res, ty |-> "F64", imm |-> constant[2]]

\* Constant::is_int
is_int(constant) ==
    constant[1] \in {"U8", "I8", "U16", "I16", "U32", "I32", "U64", "I64"}

\* Constant::is_float
is_float(constant) == constant[1] \in {"F32", "F64"}

\* Constant::is_string
is_string(constant) == constant[1] = "String"

\* Constant::is_bool
is_bool(constant) == constant[1] = "Bool"

\* The variants of Constant.
ConstantVariants ==
    {"Unit", "U8", "I8", "U16", "I16", "U32", "I32", "U64", "I64", "F32",
     "F64", "Bool", "String"}

\* The variants the two matches of Ctx::iconst have an arm for, the
\* unreachable!() arm included. The matches name no other variant, so
\* codegen is built against a Constant without U8, I8, U16 and I16.
iconst_arms ==
    {"U32", "I32", "U64", "I64", "Bool", "Unit", "F32", "F64", "String"}

\* Ctx::constant does not return: todo!() in strconst for a string,
\* unreachable!() for a unit.
constant_panics(constant) ==
    \/ is_string(constant)
    \/ ~is_float(constant) /\ ~is_int(constant) /\ ~is_bool(constant)

\* Ctx::constant: the instructions emitted for a constant that lowers.
constant(c, res) ==
    IF is_float(c) THEN <<fconst(c, res)>> ELSE <<iconst(c, res)>>

\* The load of a row's bitset byte: a stack_load for a stack-slot row, a load
\* through the pointer otherwise.
load_bitset(row, res, ty, offset, flags) ==
    IF row \in DOMAIN stack_slots
    THEN [op |-> "stack_load", res |-> res, ty |-> ty,
          slot |-> stack_slots[row], offset |-> offset]
    ELSE [op |-> "load", res |-> res, ty |-> ty, flags |-> flags,
          addr |-> exprs[row], offset |-> offset]

\* The store of a value of native type ty into a row: a stack_store for a
\* stack-slot row, a store through the pointer otherwise.
store_value(row, value, ty, offset) ==
    IF row \in DOMAIN stack_slots
    THEN [op |-> "stack_store", arg |-> value, ty |-> ty,
          slot |-> stack_slots[row], offset |-> offset]
    ELSE [op |-> "store", flags |-> MemFlags_trusted, arg |-> value, ty |-> ty,
          addr |-> exprs[row], offset |-> offset]

\* The store of a row's bitset byte.
store_bitset(row, value, offset) == store_value(row, value, "I8", offset)

\* !mask on an i64
not_i64(mask) == (-1) - mask

\* SetNull with an immediate: whether the bit is set (bor) or cleared (band).
imm_sets_bit_ignoring_sigil(sigil, set_null) == set_null

imm_sets_bit(sigil, set_null) ==
    (is_one(sigil) /\ set_null) \/ (is_zero(sigil) /\ ~set_null)

\* The instructions of SetNull that compute the new bitset from the value
\* `bitset`; the new bitset is the result of the last one. v is the first
\* free value.
set_null_mask(is_null, bitset, bit_idx, v) ==
    LET mask == 2 ^ bit_idx
    IN  IF is_null[1] = "Expr"
        THEN LET set_bit == [op |-> "bor_imm", res |-> v, arg |-> bitset,
                             imm |-> mask]
                 unset_bit == [op |-> "band_imm", res |-> v + 1, arg |-> bitset,
                               imm |-> not_i64(mask)]
             IN  <<set_bit, unset_bit,
                   IF is_one(null_sigil)
                   THEN [op |-> "select", res |-> v + 2,
                         cond |-> exprs[is_null[2]], a |-> v, b |-> v + 1]
                   ELSE [op |-> "select", res |-> v + 2,
                         cond |-> exprs[is_null[2]], a |-> v + 1, b |-> v]>>
        ELSE IF imm_sets_bit(null_sigil, is_null[2][2])
             THEN <<[op |-> "bor_imm", res |-> v, arg |-> bitset, imm |-> mask]>>
             ELSE <<[op |-> "band_imm", res |-> v, arg |-> bitset,
                     imm |-> not_i64(mask)]>>

\* The address of a row for CopyRowTo: <<instructions, value>>.
row_addr(row, v) ==
    IF row \in DOMAIN stack_slots
    THEN <<<<[op |-> "stack_addr", res |-> v, slot |-> stack_slots[row],
              offset |-> 0]>>, v>>
    ELSE <<<<>>, exprs[row]>>

\* CopyRowTo's call of emit_small_memory_copy, with source and destination
\* exchanged.
copy_row_call_swapped(dest, src, l) ==
    emit_small_memory_copy(src, dest, l.size, l.align, l.align, TRUE,
                           MemFlags_trusted)

\* CopyRowTo's call of emit_small_memory_copy.
copy_row_call(dest, src, l) ==
    emit_small_memory_copy(dest, src, l.size, l.align, l.align, TRUE,
                           MemFlags_trusted)

\* CopyRowTo never taken for a no-op.
is_noop_copy_never(src, dest) == FALSE

\* "Ignore noop copies"
is_noop_copy(src, dest) == src = dest

\* Ctx::memset_imm
memset_imm(buffer, value, l) ==
    emit_small_memset(buffer, value, l.size, l.align, MemFlags_trusted)

----------------------------------------------------------------------------
(* The machine the emitted instructions run on: the values of the SSA      *)
(* values and the bytes of the rows. Region i is the row the i-th          *)
(* parameter points to, region Len(args) + 1 + k is stack slot k.          *)

RegionOfSlot(k) == Len(args) + 1 + k

RECURSIVE BitXor(_, _, _)
BitXor(a, b, w) ==
    IF w = 0 THEN 0
    ELSE (IF a % 2 # b % 2 THEN 1 ELSE 0)
         + 2 * BitXor(a \div 2, b \div 2, w - 1)

\* What memory holds before the function writes it: one of the images the
\* input `garbage` selects, different from byte to byte and row to row.
InitialByte(region, j) == BitXor((51 * j + 85 * region) % 256, garbage, 8)

RegionSize(region) ==
    IF region <= Len(args)
    THEN native_layout_of[args[region].layout][target].size
    ELSE slots[region - Len(args)]

InitialMemory ==
    [r \in 1..(Len(args) + Len(slots)) |->
        [j \in 1..RegionSize(r) |-> InitialByte(r, j - 1)]]

\* The block parameters of the entry block: the pointers to the rows.
InitialValues ==
    [v \in 0..(Len(args) - 1) |-> [region |-> v + 1, offset |-> 0]]

Truncate8(x) == x % 256

\* The bytes a value of a native type takes in memory.
native_bytes(ty) ==
    CASE ty = "I8" -> 1
      [] ty = "I16" -> 2
      [] ty \in {"I32", "F32"} -> 4
      [] ty \in {"I64", "F64"} -> 8

RECURSIVE ByteOf(_, _)
\* Byte k of an integer, least significant first.
ByteOf(v, k) == IF k = 0 THEN v % 256 ELSE ByteOf(v \div 256, k - 1)

\* A row after a store of the value v of w bytes at an offset.
StoreBytes(row, offset, v, w) ==
    [j \in DOMAIN row |->
        IF offset < j /\ j <= offset + w THEN ByteOf(v, j - offset - 1)
        ELSE row[j]]

Exec(rt, i) ==
    CASE i.op = "stack_load" ->
            [rt EXCEPT !.vals = @ @@ (i.res :>
                rt.mem[RegionOfSlot(i.slot)][i.offset + 1])]
      [] i.op = "load" ->
            LET p == rt.vals[i.addr]
            IN  [rt EXCEPT !.vals = @ @@ (i.res :>
                    rt.mem[p.region][p.offset + i.offset + 1])]
      [] i.op = "band_imm" ->
            [rt EXCEPT !.vals = @ @@ (i.res :>
                BitAnd(rt.vals[i.arg], Truncate8(i.imm), 8))]
      [] i.op = "bor_imm" ->
            [rt EXCEPT !.vals = @ @@ (i.res :>
                BitOr(rt.vals[i.arg], Truncate8(i.imm), 8))]
      [] i.op = "icmp_imm" ->
            [rt EXCEPT !.vals = @ @@ (i.res :>
                IF (i.cond = "Equal") = (rt.vals[i.arg] = Truncate8(i.imm))
                THEN 1 ELSE 0)]
      [] i.op = "select" ->
            [rt EXCEPT !.vals = @ @@ (i.res :>
                IF rt.vals[i.cond] # 0 THEN rt.vals[i.a] ELSE rt.vals[i.b])]
      [] i.op = "iconst" ->
            [rt EXCEPT !.vals = @ @@ (i.res :> i.imm)]
      [] i.op = "stack_addr" ->
            [rt EXCEPT !.vals = @ @@ (i.res :>
                [region |-> RegionOfSlot(i.slot), offset |-> i.offset])]
      [] i.op = "stack_store" ->
            [rt EXCEPT !.mem[RegionOfSlot(i.slot)] =
                StoreBytes(@, i.offset, rt.vals[i.arg], native_bytes(i.ty))]
      [] i.op = "store" ->
            LET p == rt.vals[i.addr]
            IN  [rt EXCEPT !.mem[p.region] =
                    StoreBytes(@, p.offset + i.offset, rt.vals[i.arg],
                               native_bytes(i.ty))]
      [] i.op = "memset" ->
            LET p == rt.vals[i.buffer]
            IN  [rt EXCEPT !.mem[p.region] =
                    [j \in DOMAIN @ |->
                        IF p.offset < j /\ j <= p.offset + i.size
                        THEN i.value ELSE @[j]]]
      [] i.op = "memcpy" ->
            LET d == rt.vals[i.dest]
                s == rt.vals[i.src]
            IN  [rt EXCEPT !.mem[d.region] =
                    [j \in DOMAIN @ |->
                        IF d.offset < j /\ j <= d.offset + i.size
                        THEN rt.mem[s.region][s.offset + (j - d.offset)]
                        ELSE @[j]]]

RECURSIVE ExecAll(_, _, _)
ExecAll(rt, is, n) ==
    IF n > Len(is) THEN rt ELSE ExecAll(Exec(rt, is[n]), is, n + 1)

RECURSIVE RunFrom(_, _, _)
\* The machine after the instructions of the expressions n..k of the body.
RunFrom(rt, n, k) ==
    IF n > k THEN rt ELSE RunFrom(ExecAll(rt, insts[n], 1), n + 1, k)

\* The machine after the instructions of the first k expressions of the body.
Run(k) == RunFrom([vals |-> InitialValues, mem |-> InitialMemory], 1, k)

RECURSIVE Successor(_, _, _)
\* Where control goes from the instructions n.. of a block: brz transfers to
\* its block when its argument is zero, jump always; the result is the
\* ClifBlock, or -1 for a return.
Successor(code, vals, n) ==
    IF code[n].op = "brz" /\ vals[code[n].cond] = 0 THEN code[n].block
    ELSE IF code[n].op = "jump" THEN code[n].block
    ELSE IF code[n].op = "return" THEN -1
    ELSE Successor(code, vals, n + 1)

----------------------------------------------------------------------------
(* The arms of codegen_func's match on an expression of the block body.    *)

lvars ==
    <<null_sigil, debug_assertions, args, null_column, garbage, body, exprs,
      expr_layouts, stack_slots, function_inputs, insts, slots, nvalues,
      layouts, panicked>>

CanLower == ~panicked /\ Len(body) < MaxBody

\* A failed assertion: the lowering of expression e stops.
Panic(e) ==
    /\ panicked' = TRUE
    /\ body' = Append(body, e)
    /\ UNCHANGED <<exprs, expr_layouts, stack_slots, insts, slots, nvalues,
                   layouts>>

Frame ==
    UNCHANGED <<null_sigil, debug_assertions, args, null_column, garbage,
                function_inputs, row_layout, native, target, cache_log,
                svars, wvars, cast, ovars>>

\* Expr::Constant for the constant c: ctx.constant, then ctx.add_expr.
LowerConstantOf(c) ==
    /\ CanLower
    /\ LET e == [kind |-> "Constant", id |-> next_expr_id, value |-> c]
       IN  IF constant_panics(c)
           THEN Panic(e)
           ELSE /\ body' = Append(body, e)
                /\ insts' = Append(insts, constant(c, nvalues))
                /\ exprs' = exprs @@ (next_expr_id :> nvalues)
                /\ nvalues' = nvalues + 1
                /\ UNCHANGED <<expr_layouts, stack_slots, slots, layouts,
                               panicked>>
    /\ Frame

\* Expr::Constant of a boolean.
LowerConstant == \E b \in BOOLEAN : LowerConstantOf(<<"Bool", b>>)

\* The constants codegen can be given: the variants Ctx::iconst names, two
\* payloads for each that has one.
Constants ==
    {<<"Unit", 0>>}
    \cup {<<ty, v>> : ty \in iconst_arms \ {"Unit", "Bool", "String"},
                      v \in {0, 1}}
    \cup {<<"Bool", b>> : b \in BOOLEAN}
    \cup {<<"String", str>> : str \in {"", "a"}}

\* Expr::Constant of any variant.
LowerAnyConstant == \E c \in Constants : LowerConstantOf(c)

\* The columns of a row that hold data.
DataColumns(row) ==
    LET rl == layout_cache_get(layout_id(row))
    IN  {c \in 0..(Len(rl) - 1) : rl[c + 1].ty # "Unit"}

\* The integer and boolean constants of a column's type.
ImmediatesOf(ty) ==
    IF ty = "Bool" THEN {<<"Bool", b>> : b \in BOOLEAN}
    ELSE IF ty \in {"U32", "I32", "U64", "I64"}
    THEN {<<ty, v>> : v \in {0, 258}}
    ELSE {}

\* The values a Store is given for a column: immediates of the column's type
\* and boolean expressions.
StoreValues(row, c) ==
    LET ty == layout_cache_get(layout_id(row))[c + 1].ty
    IN  {<<"Imm", imm>> : imm \in ImmediatesOf(ty)}
        \cup (IF ty = "Bool" THEN {<<"Expr", e>> : e \in BoolExprs} ELSE {})

\* Expr::Store
LowerStore ==
    \E tgt \in Rows :
      \E c \in DataColumns(tgt) :
        \E value \in StoreValues(tgt, c) :
            /\ CanLower
            /\ LET e == [kind |-> "Store", id |-> next_expr_id, target |-> tgt,
                         column |-> c, value |-> value]
               IN  IF debug_assertions /\ is_readonly(tgt)
                   THEN Panic(e)
                   ELSE IF value[1] = "Imm" /\ constant_panics(value[2])
                   THEN /\ panicked' = TRUE
                        /\ body' = Append(body, e)
                        /\ layouts' = compute(layouts, layout_id(tgt))
                        /\ UNCHANGED <<exprs, expr_layouts, stack_slots,
                                       insts, slots, nvalues>>
                   ELSE LET ls == compute(layouts, layout_id(tgt))
                            offset == offset_of(ls[layout_id(tgt)], c)
                            imm == IF value[1] = "Imm"
                                   THEN constant(value[2], nvalues) ELSE <<>>
                            v == IF value[1] = "Imm" THEN nvalues
                                 ELSE exprs[value[2]]
                            ty == IF value[1] = "Imm" THEN imm[1].ty ELSE "I8"
                        IN  /\ body' = Append(body, e)
                            /\ insts' = Append(insts,
                                  imm \o <<store_value(tgt, v, ty, offset)>>)
                            /\ nvalues' = nvalues + Len(imm)
                            /\ layouts' = ls
                            /\ UNCHANGED <<exprs, expr_layouts, stack_slots,
                                           slots, panicked>>
            /\ Frame

\* Expr::CopyVal of an expression that has a value: the new expression takes
\* the value and the layout of the old one; a string is cloned by a call.
LowerCopyVal ==
    \E value \in DOMAIN exprs, ty \in {"Bool", "String"} :
        /\ CanLower
        /\ LET e == [kind |-> "CopyVal", id |-> next_expr_id, value |-> value,
                     ty |-> ty]
               call == [op |-> "call", fn |-> "string_clone", res |-> nvalues,
                        args |-> <<exprs[value]>>]
           IN  /\ body' = Append(body, e)
               /\ insts' = Append(insts,
                                  IF ty = "String" THEN <<call>> ELSE <<>>)
               /\ nvalues' = IF ty = "String" THEN nvalues + 1 ELSE nvalues
               /\ exprs' = exprs @@ (next_expr_id :>
                              IF ty = "String" THEN nvalues ELSE exprs[value])
               /\ expr_layouts' =
                     IF value \in DOMAIN expr_layouts
                     THEN expr_layouts @@ (next_expr_id :> expr_layouts[value])
                     ELSE expr_layouts
        /\ UNCHANGED <<stack_slots, slots, layouts, panicked>>
        /\ Frame

\* Expr::NullRow
LowerNullRow ==
    \E layout \in {args[1].layout} :
        /\ CanLower
        /\ LET ls == compute(layouts, layout)
               l == ls[layout]
               slot == Len(slots)
               addr == [op |-> "stack_addr", res |-> nvalues, slot |-> slot,
                        offset |-> 0]
           IN  /\ body' = Append(body, [kind |-> "NullRow", id |-> next_expr_id,
                                        layout |-> layout])
               /\ slots' = Append(slots, l.size)
               /\ stack_slots' = stack_slots @@ (next_expr_id :> slot)
               /\ expr_layouts' = expr_layouts @@ (next_expr_id :> layout)
               /\ insts' = Append(insts,
                     <<addr>> \o memset_imm(nvalues, sigil_as_u8(null_sigil), l))
               /\ nvalues' = nvalues + 1
               /\ layouts' = ls
        /\ UNCHANGED <<exprs, panicked>>
        /\ Frame

\* Expr::UninitRow
LowerUninitRow ==
    \E layout \in {args[1].layout} :
        /\ CanLower
        /\ LET ls == compute(layouts, layout)
           IN  /\ body' = Append(body, [kind |-> "UninitRow",
                                        id |-> next_expr_id, layout |-> layout])
               /\ slots' = Append(slots, ls[layout].size)
               /\ stack_slots' = stack_slots @@ (next_expr_id :> Len(slots))
               /\ expr_layouts' = expr_layouts @@ (next_expr_id :> layout)
               /\ insts' = Append(insts, <<>>)
               /\ layouts' = ls
        /\ UNCHANGED <<exprs, nvalues, panicked>>
        /\ Frame

\* Expr::IsNull of a column
LowerIsNullOf(column) ==
    \E value \in Rows :
        /\ CanLower
        /\ layout_cache_get(layout_id(value))[column + 1].nullable
        /\ LET ls == compute(layouts, layout_id(value))
               n == nullability_of(ls[layout_id(value)], column)
               bitset_ty == native_type(n[1], target)
               bitset == load_bitset(value, nvalues, bitset_ty, n[2],
                                     load_flags(value))
               masked == [op |-> "band_imm", res |-> nvalues + 1,
                          arg |-> nvalues, imm |-> 2 ^ n[3]]
               cmp == [op |-> "icmp_imm", res |-> nvalues + 2,
                       cond |-> IF is_one(null_sigil) THEN "NotEqual"
                                ELSE "Equal",
                       arg |-> nvalues + 1, imm |-> 0]
           IN  /\ body' = Append(body, [kind |-> "IsNull", id |-> next_expr_id,
                                        target |-> value, column |-> column])
               /\ insts' = Append(insts, <<bitset, masked, cmp>>)
               /\ exprs' = exprs @@ (next_expr_id :> nvalues + 2)
               /\ nvalues' = nvalues + 3
               /\ layouts' = ls
        /\ UNCHANGED <<expr_layouts, stack_slots, slots, panicked>>
        /\ Frame

\* Expr::IsNull of the column under test
LowerIsNull == LowerIsNullOf(null_column)

\* The values SetNull is given: an immediate boolean or a boolean expression.
BoolRValues ==
    {<<"Imm", <<"Bool", b>>>> : b \in BOOLEAN} \cup {<<"Expr", e>> : e \in BoolExprs}

\* Expr::SetNull of a column
LowerSetNullOf(column) ==
    \E tgt \in Rows, is_null \in BoolRValues :
        /\ CanLower
        /\ layout_cache_get(layout_id(tgt))[column + 1].nullable
        /\ LET e == [kind |-> "SetNull", id |-> next_expr_id, target |-> tgt,
                     column |-> column, is_null |-> is_null]
           IN  IF debug_assertions /\ is_readonly(tgt)
               THEN Panic(e)
               ELSE LET ls == compute(layouts, layout_id(tgt))
                        n == nullability_of(ls[layout_id(tgt)], column)
                        bitset_ty == native_type(n[1], target)
                        bitset == load_bitset(tgt, nvalues, bitset_ty, n[2],
                                              MemFlags_new)
                        mask == set_null_mask(is_null, nvalues, n[3], nvalues + 1)
                        masked == mask[Len(mask)].res
                    IN  /\ body' = Append(body, e)
                        /\ insts' = Append(insts,
                              <<bitset>> \o mask
                              \o <<store_bitset(tgt, masked, n[2])>>)
                        /\ nvalues' = nvalues + 1 + Len(mask)
                        /\ layouts' = ls
                        /\ UNCHANGED <<exprs, expr_layouts, stack_slots, slots,
                                       panicked>>
        /\ Frame

\* Expr::SetNull of the column under test
LowerSetNull == LowerSetNullOf(null_column)

\* Expr::CopyRowTo
LowerCopyRowTo ==
    \E src \in Rows, dest \in Rows :
        /\ CanLower
        /\ layout_id(src) = layout_id(dest)
        /\ LET e == [kind |-> "CopyRowTo", id |-> next_expr_id, src |-> src,
                     dest |-> dest, layout |-> layout_id(src)]
           IN  IF debug_assertions
                  /\ (layout_id(src) # layout_id(dest)
                      \/ layout_id(src) # e.layout
                      \/ is_readonly(dest))
               THEN Panic(e)
               ELSE IF is_noop_copy(src, dest)
               THEN /\ body' = Append(body, e)
                    /\ insts' = Append(insts, <<>>)
                    /\ UNCHANGED <<exprs, expr_layouts, stack_slots, slots,
                                   nvalues, layouts, panicked>>
               ELSE LET s == row_addr(src, nvalues)
                        d == row_addr(dest, nvalues + Len(s[1]))
                        ls == compute(layouts, e.layout)
                    IN  /\ body' = Append(body, e)
                        /\ insts' = Append(insts,
                              s[1] \o d[1]
                              \o copy_row_call(d[2], s[2], ls[e.layout]))
                        /\ nvalues' = nvalues + Len(s[1]) + Len(d[1])
                        /\ layouts' = ls
                        /\ UNCHANGED <<exprs, expr_layouts, stack_slots, slots,
                                       panicked>>
        /\ Frame

----------------------------------------------------------------------------
(* Specifications.                                                         *)

\* The lowering context while a layout is synthesized on its own.
NoLowering ==
    /\ null_sigil = "One"
    /\ debug_assertions = FALSE
    /\ args = <<>>
    /\ null_column = 0
    /\ garbage = 0
    /\ body = <<>>
    /\ exprs = EmptyMap
    /\ expr_layouts = EmptyMap
    /\ stack_slots = EmptyMap
    /\ function_inputs = EmptyMap
    /\ insts = <<>>
    /\ slots = <<>>
    /\ nvalues = 0
    /\ layouts = EmptyMap
    /\ panicked = FALSE

\* No request was made of the layout cache by the session itself.
NoRequests == cache_log = <<>>

NoSignature == [args |-> <<>>, ret |-> 0]

NoClifSignature == [params |-> <<"none">>, returns |-> <<"none">>]

\* build_signature is not under study.
\* No Cast expression is under test.
NoCast ==
    [from |-> "Unit", to |-> "Unit", checked |-> FALSE, valid |-> FALSE]

CastIdle == cast = NoCast

\* No size computation is under way.
NoSizing == [stage |-> "idle"]

SizingIdle == sizing = NoSizing

\* No row was allocated and the system allocator was not called.
NoHeap == [calls |-> <<>>, live |-> <<>>, next |-> 1, ops |-> 0,
           last |-> [op |-> "none"]]

HeapIdle == heap = NoHeap

\* from_row2 is not under test.
NoLayout2 == [stage |-> "idle"]

Layout2Idle == layout2 = NoLayout2

OthersIdle == SizingIdle /\ HeapIdle /\ Layout2Idle

SignatureIdle ==
    /\ signature = NoSignature
    /\ clif_sig = NoClifSignature

\* The walk over the blocks is not under study: the function is its entry
\* block.
WalkIdle ==
    /\ function_blocks = <<>>
    /\ stack = <<>>
    /\ visited = {}
    /\ ctx_blocks = EmptyMap
    /\ sealed = {}
    /\ block_code = <<>>
    /\ finished = FALSE

\* The nullable columns of a row layout, or null_column 0 when it has none.
ColumnsUnderTest(layout) ==
    LET rl == layout_cache_get(layout)
        nullable == {c \in 0..(Len(rl) - 1) : rl[c + 1].nullable}
    IN  IF nullable = {} THEN {0} ELSE nullable

\* The state of codegen_func when the walk over the blocks starts: after
\* build_signature, Ctx::new and Ctx::add_function_params.
InitLower(arg_lists) ==
    /\ row_layout = <<>>
    /\ native = NoLayout
    /\ target = 8
    /\ null_sigil \in NullSigils
    /\ debug_assertions \in BOOLEAN
    /\ args \in arg_lists
    /\ null_column \in ColumnsUnderTest(args[1].layout)
    /\ garbage \in ByteSeeds
    /\ body = <<>>
    /\ exprs = [e \in 1..Len(args) |-> e - 1]
    /\ expr_layouts = [e \in 1..Len(args) |-> args[e].layout]
    /\ stack_slots = EmptyMap
    /\ function_inputs = [e \in 1..Len(args) |-> args[e].flags]
    /\ insts = <<>>
    /\ slots = <<>>
    /\ nvalues = Len(args)
    /\ layouts = compute(EmptyMap, signature_ret)
    /\ panicked = FALSE
    /\ NoRequests
    /\ SignatureIdle
    /\ CastIdle
    /\ OthersIdle

\* Functions of one row parameter.
OneRowArgs ==
    {<<[layout |-> l, expr_id |-> 1, flags |-> f]>> :
        l \in LayoutIds, f \in InputFlagsSet}

\* Functions of two row parameters of one layout, the second one writable.
TwoRowArgs ==
    {<<[layout |-> l, expr_id |-> 1, flags |-> f],
       [layout |-> l, expr_id |-> 2, flags |-> "none"]>> :
        l \in LayoutIds, f \in InputFlagsSet}

\* Functions made of constants.
InitConstant ==
    /\ InitLower(OneRowArgs)
    /\ args[1].layout = 2
    /\ null_sigil = "One"
    /\ garbage = 0
    /\ WalkIdle

NextConstant == Len(body) < MaxConsts /\ LowerAnyConstant

SpecConstant == InitConstant /\ [][NextConstant]_vars

\* Functions that set and test null flags.
InitSetNull == InitLower(OneRowArgs) /\ WalkIdle

NextSetNull ==
    \/ LowerConstant
    \/ LowerUninitRow
    \/ LowerIsNull
    \/ LowerSetNull

SpecSetNull == InitSetNull /\ [][NextSetNull]_vars

\* The columns whose flags the functions below set and test: the first two
\* nullable columns of the first bitset byte and those past it.
FlagColumns(layout) ==
    {c \in ColumnsUnderTest(layout) : c < 2 \/ c >= 8}

\* Functions of at most MaxFlagOps expressions that set and test the null
\* flags of several columns of one row, of two or of ten nullable columns.
InitFlags ==
    /\ InitLower({<<[layout |-> l, expr_id |-> 1, flags |-> "none"]>> :
                     l \in {1, wide_layout}})
    /\ null_column = 0
    /\ debug_assertions
    /\ WalkIdle

NextFlags ==
    \E column \in FlagColumns(args[1].layout) :
        /\ Len(body) < MaxFlagOps
        /\ \/ LowerIsNullOf(column)
           \/ LowerSetNullOf(column)

SpecFlags == InitFlags /\ [][NextFlags]_vars

\* Functions that build null rows and test their null flags.
InitNullRow == InitLower(OneRowArgs) /\ WalkIdle

NextNullRow ==
    \/ LowerNullRow
    \/ LowerIsNull

SpecNullRow == InitNullRow /\ [][NextNullRow]_vars

\* Functions that copy rows; they hold no null-flag operation, so the sigil
\* is left at its default.
InitCopy ==
    /\ InitLower(TwoRowArgs)
    /\ null_column = 0
    /\ null_sigil = "One"
    /\ WalkIdle

NextCopy ==
    \/ LowerUninitRow
    \/ LowerCopyRowTo

SpecCopy == InitCopy /\ [][NextCopy]_vars

\* Functions of at most MaxWrites expressions that write to rows.
InitWrite == InitLower(TwoRowArgs) /\ null_column = 0 /\ WalkIdle

NextWrite ==
    \/ Len(body) < MaxWrites /\ LowerStore
    \/ Len(body) < MaxWrites /\ LowerSetNull
    \/ Len(body) < MaxWrites /\ LowerCopyRowTo

SpecWrite == InitWrite /\ [][NextWrite]_vars

\* Functions of at most MaxWrites expressions that copy values and write to
\* rows.
InitAlias == InitLower(OneRowArgs) /\ null_column = 0 /\ WalkIdle

NextAlias ==
    \/ Len(body) < MaxWrites /\ LowerCopyVal
    \/ Len(body) < MaxWrites /\ LowerStore
    \/ Len(body) < MaxWrites /\ LowerSetNull
    \/ Len(body) < MaxWrites /\ LowerCopyRowTo

SpecAlias == InitAlias /\ [][NextAlias]_vars

----------------------------------------------------------------------------
(* codegen_func's walk over the blocks of a function.                      *)

\* The first block of every function.
entry_block == 1

\* The terminators of a function of n blocks whose branches test cond. No
\* edge leads back into the entry block.
Terminators(n, cond) ==
    {[kind |-> "Return", value |-> <<"Imm", <<"Unit", 0>>>>]}
    \cup {[kind |-> "Jump", target |-> t] : t \in 2..n}
    \cup {[kind |-> "Branch", cond |-> <<"Expr", cond>>, truthy |-> t,
           falsy |-> f] : t \in 2..n, f \in 2..n}

\* The terminators of a function of n blocks with edges to any block, the
\* entry block included.
Graphs(n, cond) ==
    Terminators(n, cond)
    \cup {[kind |-> "Jump", target |-> entry_block]}
    \cup {[kind |-> "Branch", cond |-> <<"Expr", cond>>, truthy |-> t,
           falsy |-> f] : t \in 1..n, f \in 1..n}

\* The terminators of a function of n blocks whose branches test any of the
\* expressions of es.
Uses(n, es) ==
    {[kind |-> "Return", value |-> <<"Imm", <<"Unit", 0>>>>]}
    \cup {[kind |-> "Jump", target |-> t] : t \in 2..n}
    \cup {[kind |-> "Branch", cond |-> <<"Expr", e>>, truthy |-> t,
           falsy |-> f] : e \in es, t \in 2..n, f \in 2..n}

\* BinOpKind: the kinds of a binary operation, the arms of the match on
\* binop.kind().
BinOpKinds == {"Add", "Sub", "Mul", "Eq", "Neq", "And", "Or"}

\* The body of a block whose expression is e: nothing (x = 0), a constant
\* (x = e), or a BinOp of kind k of the expression x of another block.
Body(e, x, k) ==
    IF x = 0 THEN <<>>
    ELSE IF x = e
    THEN <<[kind |-> "Constant", id |-> e, value |-> <<"Bool", TRUE>>]>>
    ELSE <<[kind |-> "BinOp", id |-> e, binop_kind |-> k, lhs |-> x,
            rhs |-> x]>>

\* The function of the terminators ts: the entry block holds the boolean
\* constant v, expression e, that the branches test; the other bodies are
\* empty.
Function(ts, e, v) ==
    [b \in DOMAIN ts |->
        [body |-> IF b = entry_block
                  THEN <<[kind |-> "Constant", id |-> e,
                          value |-> <<"Bool", v>>]>>
                  ELSE <<>>,
         terminator |-> ts[b]]]

\* Ctx::block: Ctx::blocks after the call; the block is block(bs, n, b)[b].
\* n is the number of blocks the builder created so far.
block(bs, n, b) == IF b \in DOMAIN bs THEN bs ELSE bs @@ (b :> n)

\* The number of blocks the builder created after Ctx::block.
blocks_after(bs, n, b) == IF b \in DOMAIN bs THEN n ELSE n + 1

\* The blocks a branch leaves on the stack, truthy only.
branch_targets_truthy(t) == <<t.truthy>>

\* The blocks a branch leaves on the stack: stack.extend([truthy, falsy]).
branch_targets(t) == <<t.truthy, t.falsy>>

\* Ctx::codegen_terminator with Ctx::exprs = es and nv values in the builder:
\* the instructions emitted, Ctx::blocks afterwards, the number of blocks the
\* builder created, the blocks pushed on the stack, and whether it panics (an
\* expression missing from Ctx::exprs, todo!(), or a constant that does not
\* lower).
codegen_terminator(t, es, bs, n, nv) ==
    LET stop == [insts |-> <<>>, blocks |-> bs, created |-> n,
                 pushed |-> <<>>, panics |-> TRUE]
    IN  CASE t.kind = "Return" ->
            IF t.value[1] = "Expr"
            THEN IF t.value[2] \notin DOMAIN es THEN stop
                 ELSE [insts |-> <<[op |-> "return",
                                    args |-> <<es[t.value[2]]>>]>>,
                       blocks |-> bs, created |-> n, pushed |-> <<>>,
                       panics |-> FALSE]
            ELSE IF t.value[2][1] = "Unit"
            THEN [insts |-> <<[op |-> "return", args |-> <<>>]>>,
                  blocks |-> bs, created |-> n, pushed |-> <<>>,
                  panics |-> FALSE]
            ELSE IF is_string(t.value[2]) \/ constant_panics(t.value[2])
            THEN stop
            ELSE [insts |-> constant(t.value[2], nv)
                            \o <<[op |-> "return", args |-> <<nv>>]>>,
                  blocks |-> bs, created |-> n, pushed |-> <<>>,
                  panics |-> FALSE]
          [] t.kind = "Jump" ->
            LET bs1 == block(bs, n, t.target)
            IN  [insts |-> <<[op |-> "jump", block |-> bs1[t.target]]>>,
                 blocks |-> bs1, created |-> blocks_after(bs, n, t.target),
                 pushed |-> <<t.target>>, panics |-> FALSE]
          [] t.kind = "Branch" ->
            LET bs1 == block(bs, n, t.truthy)
                n1 == blocks_after(bs, n, t.truthy)
                bs2 == block(bs1, n1, t.falsy)
                n2 == blocks_after(bs1, n1, t.falsy)
            IN  IF t.cond[1] = "Imm" \/ t.cond[2] \notin DOMAIN es
                THEN [stop EXCEPT !.blocks = bs2, !.created = n2]
                ELSE [insts |-> <<[op |-> "brz", cond |-> es[t.cond[2]],
                                  block |-> bs2[t.truthy]],
                                 [op |-> "jump", block |-> bs2[t.falsy]]>>,
                      blocks |-> bs2, created |-> n2,
                      pushed |-> branch_targets(t), panics |-> FALSE]

\* Ctx::add_expr that forgets the expression.
add_expr_dropped(es, expr_id, value) == es

\* Ctx::add_expr: Ctx::exprs after exprs.insert(expr_id, value), which
\* replaces the value of an expression that has one.
add_expr(es, expr_id, value) ==
    [x \in DOMAIN es \cup {expr_id} |->
        IF x = expr_id THEN value ELSE es[x]]

\* The instruction of a BinOp of the values lhs and rhs, value nv: the match
\* on binop.kind().
binop(kind, lhs, rhs, nv) ==
    CASE kind = "Add" -> [op |-> "iadd", res |-> nv, args |-> <<lhs, rhs>>]
      [] kind = "Sub" -> [op |-> "isub", res |-> nv, args |-> <<lhs, rhs>>]
      [] kind = "Mul" -> [op |-> "imul", res |-> nv, args |-> <<lhs, rhs>>]
      [] kind = "Eq" -> [op |-> "icmp", cond |-> "Equal", res |-> nv,
                         args |-> <<lhs, rhs>>]
      [] kind = "Neq" -> [op |-> "icmp", cond |-> "NotEqual", res |-> nv,
                          args |-> <<lhs, rhs>>]
      [] kind = "And" -> [op |-> "band", res |-> nv, args |-> <<lhs, rhs>>]
      [] kind = "Or" -> [op |-> "bor", res |-> nv, args |-> <<lhs, rhs>>]

\* The lowering of one expression of a block body with Ctx::exprs = es and nv
\* values in the builder: its instructions, or a panic (a constant that does
\* not lower, an operand missing from Ctx::exprs).
lower_expr(e, es, nv) ==
    CASE e.kind = "Constant" ->
            IF constant_panics(e.value)
            THEN [insts |-> <<>>, panics |-> TRUE]
            ELSE [insts |-> constant(e.value, nv), panics |-> FALSE]
      [] e.kind = "BinOp" ->
            IF e.lhs \notin DOMAIN es \/ e.rhs \notin DOMAIN es
            THEN [insts |-> <<>>, panics |-> TRUE]
            ELSE [insts |-> <<binop(e.binop_kind, es[e.lhs], es[e.rhs], nv)>>,
                  panics |-> FALSE]

RECURSIVE lower_body(_, _, _)
\* The loop over block_contents.body() from its k-th expression on: st holds
\* the expressions reached, their instructions, Ctx::exprs and the number of
\* values; the loop ends at the first expression that panics. The
\* debug_assert!(prev.is_none()) of Ctx::add_expr panics after the instruction
\* is emitted and Ctx::exprs holds its value.
lower_body(st, items, k) ==
    IF k > Len(items) THEN st
    ELSE LET e == items[k]
             low == lower_expr(e, st.exprs, st.nvalues)
             added == [body |-> Append(st.body, e),
                       insts |-> Append(st.insts, low.insts),
                       exprs |-> add_expr(st.exprs, e.id, st.nvalues),
                       nvalues |-> st.nvalues + 1,
                       panicked |-> debug_assertions
                                      /\ e.id \in DOMAIN st.exprs]
         IN  IF low.panics
             THEN [st EXCEPT !.body = Append(@, e), !.panicked = TRUE]
             ELSE IF added.panicked THEN added
             ELSE lower_body(added, items, k + 1)

\* The state of codegen_func when the walk starts: the entry block is created
\* and on the stack.
StartWalk ==
    /\ InitLower({<<[layout |-> 1, expr_id |-> 1, flags |-> "none"]>>})
    /\ null_sigil = "One"
    /\ null_column = 0
    /\ garbage = 0
    /\ debug_assertions
    /\ stack = <<entry_block>>
    /\ visited = {}
    /\ ctx_blocks = (entry_block :> 0)
    /\ sealed = {}
    /\ block_code = <<<<>>>>
    /\ finished = FALSE

\* The walk over the functions whose edges stay clear of the entry block.
InitWalk ==
    /\ StartWalk
    /\ \E n \in 1..MaxBlocks, v \in BOOLEAN :
          \E ts \in [1..n -> Terminators(n, Len(args) + 1)] :
              function_blocks = Function(ts, Len(args) + 1, v)

\* The walk over every control-flow graph of at most MaxBlocks blocks.
InitGraphs ==
    /\ StartWalk
    /\ \E n \in 1..MaxBlocks :
          \E ts \in [1..n -> Graphs(n, Len(args) + 1)] :
              function_blocks = Function(ts, Len(args) + 1, TRUE)

\* The walk over functions whose blocks define one expression each, block b
\* expression Len(args) + b, and use the expressions of any block; the entry
\* block defines a constant.
InitDefUse ==
    /\ StartWalk
    /\ \E n \in 1..MaxBlocks :
          LET es == {Len(args) + b : b \in 1..n}
          IN  \E xs \in [2..n -> {0} \cup es], k \in BinOpKinds :
              \E ts \in [1..n -> Uses(n, es)] :
                 function_blocks =
                    [b \in 1..n |->
                       [body |-> Body(Len(args) + b,
                                      IF b = entry_block THEN Len(args) + b
                                      ELSE xs[b], k),
                        terminator |-> ts[b]]]

WalkFrame ==
    UNCHANGED <<row_layout, native, target, null_sigil, debug_assertions, args,
                null_column, garbage, expr_layouts, stack_slots,
                function_inputs, slots, layouts, cache_log, svars,
                function_blocks, cast, ovars>>

\* An iteration of the walk that pops a block it has visited: continue.
SkipVisited ==
    /\ ~finished /\ ~panicked
    /\ stack # <<>>
    /\ stack[Len(stack)] \in visited
    /\ stack' = SubSeq(stack, 1, Len(stack) - 1)
    /\ UNCHANGED <<visited, ctx_blocks, sealed, block_code, finished, body,
                   exprs, insts, nvalues, panicked>>
    /\ WalkFrame

\* The instructions of a block body, one after the other.
RECURSIVE Flatten(_)
Flatten(groups) ==
    IF groups = <<>> THEN <<>> ELSE Head(groups) \o Flatten(Tail(groups))

\* An iteration of the walk that pops a block it has not visited: switch to
\* it, lower its body and its terminator, seal it. A panic ends the walk
\* where it happens.
LowerBlock ==
    /\ ~finished /\ ~panicked
    /\ stack # <<>>
    /\ stack[Len(stack)] \notin visited
    /\ LET block_id == stack[Len(stack)]
           contents == function_blocks[block_id]
           clif == ctx_blocks[block_id]
           low == lower_body([body |-> body, insts |-> insts,
                              exprs |-> exprs, nvalues |-> nvalues,
                              panicked |-> FALSE],
                             contents.body, 1)
           code == Flatten(SubSeq(low.insts, Len(insts) + 1, Len(low.insts)))
           term == IF low.panicked
                   THEN [insts |-> <<>>, blocks |-> ctx_blocks,
                         created |-> Len(block_code), pushed |-> <<>>,
                         panics |-> TRUE]
                   ELSE codegen_terminator(contents.terminator, low.exprs,
                                           ctx_blocks, Len(block_code),
                                           low.nvalues)
       IN  /\ visited' = visited \cup {block_id}
           /\ body' = low.body
           /\ insts' = low.insts
           /\ exprs' = low.exprs
           /\ nvalues' = low.nvalues
                            + Cardinality({k \in 1..Len(term.insts) :
                                             "res" \in DOMAIN term.insts[k]})
           /\ ctx_blocks' = term.blocks
           /\ block_code' =
                 [c \in 1..term.created |->
                    IF c = clif + 1 THEN code \o term.insts
                    ELSE IF c <= Len(block_code) THEN block_code[c] ELSE <<>>]
           /\ stack' = SubSeq(stack, 1, Len(stack) - 1) \o term.pushed
           /\ sealed' = IF term.panics THEN sealed ELSE sealed \cup {clif}
           /\ panicked' = term.panics
    /\ UNCHANGED finished
    /\ WalkFrame

\* The end of the walk: seal_all_blocks and finalize.
FinishWalk ==
    /\ ~finished /\ ~panicked
    /\ stack = <<>>
    /\ sealed' = 0..(Len(block_code) - 1)
    /\ finished' = TRUE
    /\ UNCHANGED <<stack, visited, ctx_blocks, block_code, body, exprs, insts,
                   nvalues, panicked>>
    /\ WalkFrame

NextWalk ==
    \/ SkipVisited
    \/ LowerBlock
    \/ FinishWalk

SpecWalk == InitWalk /\ [][NextWalk]_vars

SpecDefUse == InitDefUse /\ [][NextWalk]_vars

\* The loop of codegen_func runs on its own: every iteration that can happen
\* does happen.
SpecGraphs == InitGraphs /\ [][NextWalk]_vars /\ WF_vars(NextWalk)

\* The IR signatures: the layouts of the arguments and of the return value.
Signatures ==
    [args : UNION {[1..n -> LayoutIds] : n \in 0..MaxArgs}, ret : LayoutIds]

\* isa().pointer_type()
pointer_type(tgt) == IF tgt = 8 THEN "I64" ELSE "I32"

\* build_signature returning a pointer whatever the return layout is.
sig_returns_always(ret, tgt) == <<pointer_type(tgt)>>

\* build_signature: sig.returns for the native layout of the return value.
sig_returns(ret, tgt) ==
    IF ~is_zero_sized(ret) THEN <<pointer_type(tgt)>> ELSE <<>>

\* Codegen::build_signature: the machine signature.
build_signature(sg, ls, tgt) ==
    [returns |-> sig_returns(compute(ls, sg.ret)[sg.ret], tgt),
     params |-> [i \in 1..Len(sg.args) |-> pointer_type(tgt)]]

\* A session that builds the machine signature of an IR signature.
InitSignature ==
    /\ row_layout = <<>>
    /\ native = NoLayout
    /\ target \in PointerWidths
    /\ NoLowering
    /\ NoRequests
    /\ signature \in Signatures
    /\ clif_sig = NoClifSignature
    /\ CastIdle
    /\ OthersIdle
    /\ WalkIdle

\* Codegen::build_signature
BuildSignature ==
    /\ clif_sig = NoClifSignature
    /\ clif_sig' = build_signature(signature, layouts, target)
    /\ layouts' = compute(layouts, signature.ret)
    /\ UNCHANGED <<row_layout, native, target, null_sigil, debug_assertions,
                   args, null_column, garbage, body, exprs, expr_layouts,
                   stack_slots, function_inputs, insts, slots, nvalues,
                   panicked, cache_log, signature, wvars, cast, ovars>>

NextSignature == BuildSignature

SpecSignature == InitSignature /\ [][NextSignature]_vars

\* The values a Return carries: any immediate, or the row parameter.
ReturnValues == {<<"Imm", c>> : c \in Constants} \cup {<<"Expr", 1>>}

\* The function of n blocks that returns value from its last block; block b
\* before it leads to block b + 1 by a Jump or by a Branch on expression e,
\* the constant of the entry block.
Returning(n, shape, e, value) ==
    [b \in 1..n |->
        [body |-> IF b = entry_block
                  THEN <<[kind |-> "Constant", id |-> e,
                          value |-> <<"Bool", TRUE>>]>>
                  ELSE <<>>,
         terminator |->
            IF b = n THEN [kind |-> "Return", value |-> value]
            ELSE IF shape[b] = "Jump" THEN [kind |-> "Jump", target |-> b + 1]
            ELSE [kind |-> "Branch", cond |-> <<"Expr", e>>,
                  truthy |-> b + 1, falsy |-> b + 1]]]

\* codegen_func on a function of one row parameter, after build_signature
\* and add_function_params: any layout for the parameter and for the return
\* value.
InitReturn ==
    /\ row_layout = <<>>
    /\ native = NoLayout
    /\ target = 8
    /\ null_sigil = "One"
    /\ debug_assertions = TRUE
    /\ \E l \in LayoutIds :
          args = <<[layout |-> l, expr_id |-> 1, flags |-> "none"]>>
    /\ null_column = 0
    /\ garbage = 0
    /\ body = <<>>
    /\ exprs = [e \in 1..Len(args) |-> e - 1]
    /\ expr_layouts = [e \in 1..Len(args) |-> args[e].layout]
    /\ stack_slots = EmptyMap
    /\ function_inputs = [e \in 1..Len(args) |-> args[e].flags]
    /\ insts = <<>>
    /\ slots = <<>>
    /\ nvalues = Len(args)
    /\ \E ret \in LayoutIds :
          signature = [args |-> <<args[1].layout>>, ret |-> ret]
    /\ clif_sig = build_signature(signature, EmptyMap, target)
    /\ layouts = compute(EmptyMap, signature.ret)
    /\ panicked = FALSE
    /\ NoRequests
    /\ CastIdle
    /\ OthersIdle
    /\ \E n \in 1..MaxBlocks, value \in ReturnValues :
          \E shape \in [1..(n - 1) -> {"Jump", "Branch"}] :
              function_blocks = Returning(n, shape, Len(args) + 1, value)
    /\ stack = <<entry_block>>
    /\ visited = {}
    /\ ctx_blocks = (entry_block :> 0)
    /\ sealed = {}
    /\ block_code = <<<<>>>>
    /\ finished = FALSE

SpecReturn == InitReturn /\ [][NextWalk]_vars

\* A session that only asks its layout cache for layouts.
InitCache ==
    /\ row_layout = <<>>
    /\ native = NoLayout
    /\ target \in PointerWidths
    /\ NoLowering
    /\ NoRequests
    /\ SignatureIdle
    /\ CastIdle
    /\ OthersIdle
    /\ WalkIdle

\* What a request leaves in the log: whether Layout::from_row ran (the entry
\* was vacant) and the layout the returned reference points to.
Request(op, id, ls) ==
    [op |-> op, id |-> id, synthesized |-> id \notin DOMAIN layouts,
     native_layout |-> ls[id]]

\* NativeLayoutCache::compute
Compute ==
    \E id \in LayoutIds :
        /\ Len(cache_log) < MaxRequests
        /\ LET ls == compute(layouts, id)
           IN  /\ layouts' = ls
               /\ cache_log' = Append(cache_log, Request("compute", id, ls))
        /\ UNCHANGED <<row_layout, native, target, null_sigil,
                       debug_assertions, args, null_column, garbage, body,
                       exprs, expr_layouts, stack_slots, function_inputs,
                       insts, slots, nvalues, panicked, svars, wvars, cast, ovars>>

\* NativeLayoutCache::get_layouts
GetLayouts ==
    \E id \in LayoutIds :
        /\ Len(cache_log) < MaxRequests
        /\ LET row == layout_cache_get(id)
               ls == IF id \in DOMAIN layouts THEN layouts
                     ELSE layouts @@ (id :> from_row(row, target))
           IN  /\ layouts' = ls
               /\ cache_log' = Append(cache_log,
                     Request("get_layouts", id, ls) @@ [row_layout |-> row])
        /\ UNCHANGED <<row_layout, native, target, null_sigil,
                       debug_assertions, args, null_column, garbage, body,
                       exprs, expr_layouts, stack_slots, function_inputs,
                       insts, slots, nvalues, panicked, svars, wvars, cast, ovars>>

NextCache ==
    \/ Compute
    \/ GetLayouts

SpecCache == InitCache /\ [][NextCache]_vars

----------------------------------------------------------------------------
(* Cast expressions and their validity.                                    *)

\* The IR's column domain.
ColumnTypes ==
    {"Unit", "Bool", "U8", "I8", "U16", "I16", "U32", "I32", "U64", "I64",
     "F32", "F64", "String", "Date", "Timestamp"}

ColumnType_is_int(ty) ==
    ty \in {"U8", "I8", "U16", "I16", "U32", "I32", "U64", "I64"}

ColumnType_is_float(ty) == ty \in {"F32", "F64"}

ColumnType_is_bool(ty) == ty = "Bool"

ColumnType_is_date(ty) == ty = "Date"

ColumnType_is_timestamp(ty) == ty = "Timestamp"

ColumnType_is_unit(ty) == ty = "Unit"

ColumnType_is_string(ty) == ty = "String"

\* is_weird_float_cast of Cast::is_valid_cast
is_weird_float_cast(a, b) ==
    /\ ColumnType_is_float(a)
    /\ \/ ColumnType_is_bool(b)
       \/ ColumnType_is_date(b)
       \/ ColumnType_is_timestamp(b)

\* Cast::is_valid_cast
is_valid_cast(from, to) ==
    IF from = to THEN TRUE
    ELSE LET is_invalid_cast ==
                 \/ ColumnType_is_unit(from) \/ ColumnType_is_unit(to)
                 \/ ColumnType_is_string(from) \/ ColumnType_is_string(to)
                 \/ is_weird_float_cast(from, to)
                 \/ is_weird_float_cast(to, from)
                 \/ (~ColumnType_is_bool(from) /\ ColumnType_is_bool(to))
         IN  ~is_invalid_cast

\* A Cast expression of any source and target type, not yet checked.
InitCast ==
    /\ row_layout = <<>>
    /\ native = NoLayout
    /\ target = 8
    /\ NoLowering
    /\ NoRequests
    /\ SignatureIdle
    /\ WalkIdle
    /\ OthersIdle
    /\ \E from \in ColumnTypes, to \in ColumnTypes :
           cast = [from |-> from, to |-> to, checked |-> FALSE,
                   valid |-> FALSE]

\* Cast::is_valid_cast on the Cast under test.
IsValidCast ==
    /\ ~cast.checked
    /\ cast' = [cast EXCEPT !.checked = TRUE,
                            !.valid = is_valid_cast(cast.from, cast.to)]
    /\ UNCHANGED <<row_layout, native, target, null_sigil, debug_assertions,
                   args, null_column, garbage, body, exprs, expr_layouts,
                   stack_slots, function_inputs, insts, slots, nvalues,
                   layouts, panicked, cache_log, svars, wvars, ovars>>

NextCast == IsValidCast

SpecCast == InitCast /\ [][NextCast]_vars

----------------------------------------------------------------------------
(* The running size of Layout::from_row as a u32.                          *)

\* size += n under the build's overflow checks: the addition panics when they
\* are compiled in and wraps when they are not.
add_to_size(sz, n) ==
    IF sz.stage = "aborted" THEN sz
    ELSE LET sum == u32_add(sz.size, n)
         IN  IF sum.overflow /\ sz.overflow_checks
             THEN [sz EXCEPT !.stage = "aborted"]
             ELSE [sz EXCEPT !.size = sum.value,
                             !.wrapped = @ \/ sum.overflow]

Min(a, b) == IF a <= b THEN a ELSE b

\* The body of the loop over layout.rows() for a non-Unit column, as far as
\* size, align and the pool of bitflags go.
size_after_column(sz, ty, tgt) ==
    LET field_align == Type_align(ty, tgt)
        required_padding == padding_needed_for_u32(sz.size, field_align)[2]
        filled == Min(required_padding, sz.bitflags)
        aligned == [sz EXCEPT !.align = Max(@, field_align),
                              !.bitflags = @ - filled]
    IN  add_to_size(
            add_to_size(add_to_size(aligned, filled),
                        required_padding - filled),
            Type_size(ty, tgt))

\* The tails of a row layout that is under way.
MaxTail == 2

SizedTypes == {"Unit", "Bool", "U16", "U32", "U64"}

Tails ==
    UNION {[1..n -> [ty : SizedTypes, nullable : BOOLEAN]] : n \in 0..MaxTail}

\* 2^29 columns of eight bytes fill the 32-bit address range.
FullRange == 536870912

\* The numbers of non-nullable U64 columns the loop has placed when the model
\* takes it up.
Prefixes == {0, 1, FullRange - 2, FullRange - 1}

\* from_row after a prefix of k non-nullable U64 columns: the size is 8 * k.
InitSize ==
    /\ row_layout = <<>>
    /\ native = NoLayout
    /\ target \in PointerWidths
    /\ NoLowering
    /\ NoRequests
    /\ SignatureIdle
    /\ CastIdle
    /\ HeapIdle
    /\ Layout2Idle
    /\ WalkIdle
    /\ \E k \in Prefixes, tail \in Tails, checks \in BOOLEAN :
           sizing = [stage |-> "rows",
                     prefix |-> k,
                     rows |-> tail,
                     size |-> <<k \div 8192, (k % 8192) * 8>>,
                     align |-> IF k = 0 THEN 1 ELSE 8,
                     bitflags |-> bits_to_bitflags(count_ones(tail)),
                     overflow_checks |-> checks,
                     wrapped |-> FALSE]

SizeFrame ==
    UNCHANGED <<row_layout, native, target, null_sigil, debug_assertions,
                args, null_column, garbage, body, exprs, expr_layouts,
                stack_slots, function_inputs, insts, slots, nvalues,
                layouts, panicked, cache_log, svars, wvars, cast, heap, layout2>>

\* One iteration of the loop over layout.rows().
SizeColumn ==
    /\ sizing.stage = "rows"
    /\ sizing.rows # <<>>
    /\ LET row == Head(sizing.rows).ty
           rest == [sizing EXCEPT !.rows = Tail(@)]
       IN  sizing' = IF row = "Unit" THEN rest
                     ELSE size_after_column(rest, row_type_to_type(row),
                                            target)
    /\ SizeFrame

\* One iteration of the loop over the bitflags left in the pool.
SizeBitflag ==
    /\ sizing.stage = "rows"
    /\ sizing.rows = <<>>
    /\ sizing.bitflags > 0
    /\ sizing' = add_to_size([sizing EXCEPT !.bitflags = @ - 1], 1)
    /\ SizeFrame

\* size += padding_needed_for(size, align), and the Layout is returned.
SizeFinish ==
    /\ sizing.stage = "rows"
    /\ sizing.rows = <<>>
    /\ sizing.bitflags = 0
    /\ LET padded ==
               add_to_size(sizing,
                           padding_needed_for_u32(sizing.size, sizing.align)[2])
       IN  sizing' = IF padded.stage = "aborted" THEN padded
                     ELSE [padded EXCEPT !.stage = "returned"]
    /\ SizeFrame

NextSize ==
    \/ SizeColumn
    \/ SizeBitflag
    \/ SizeFinish

SpecSize == InitSize /\ [][NextSize]_vars

----------------------------------------------------------------------------
(* Layout::alloc, dealloc, alloc_array and dealloc_array.                  *)

\* NonNull::dangling(), and the null pointer of a failed allocation.
Dangling == 0

NullPtr == -1

\* StdLayout::from_size_align(self.size as usize, self.align as usize)
from_size_align(l) == [size |-> l.size, align |-> l.align]

\* StdLayout::extend(next).unwrap().0
extend(layout, next) ==
    [size |-> layout.size + padding_needed_for(layout.size, next.align)
                  + next.size,
     align |-> Max(layout.align, next.align)]

RECURSIVE array_layout_from(_, _, _, _)
\* The loop `for _ in from..length { layout = layout.extend(single) }`.
array_layout_from(layout, single, from, length) ==
    IF from >= length THEN layout
    ELSE array_layout_from(extend(layout, single), single, from + 1, length)

\* The footprint with one extension per row, the first one included.
array_layout_inclusive(single, length) ==
    array_layout_from(single, single, 0, length)

\* The footprint of alloc_array and dealloc_array: single extended by itself
\* for _ in 1..length.
array_layout(single, length) == array_layout_from(single, single, 1, length)

\* Layout::alloc: the StdLayout std::alloc::alloc is called with, if any.
alloc(l) ==
    IF is_zero_sized(l) THEN None ELSE Some(from_size_align(l))

\* Layout::dealloc: the StdLayout std::alloc::dealloc is called with, if any.
dealloc(l) ==
    IF ~is_zero_sized(l) THEN Some(from_size_align(l)) ELSE None

\* Layout::alloc_array
alloc_array(l, length) ==
    IF is_zero_sized(l) \/ length = 0 THEN None
    ELSE Some(array_layout(from_size_align(l), length))

\* Layout::dealloc_array
dealloc_array(l, length) ==
    IF ~is_zero_sized(l) /\ length # 0
    THEN Some(array_layout(from_size_align(l), length))
    ELSE None

\* Operations of a session, and rows of an array.
MaxHeapOps == 3

MaxLength == 3

\* The row layouts whose native layouts allocate rows.
HeapRows ==
    LET cols == [ty : {"Unit", "Bool", "U32", "U64"}, nullable : BOOLEAN]
    IN  UNION {[1..n -> cols] : n \in 0..2}

\* A Layout built by from_row, before it allocated anything.
InitHeap ==
    /\ row_layout \in HeapRows
    /\ target \in PointerWidths
    /\ native = from_row(row_layout, target)
    /\ NoLowering
    /\ NoRequests
    /\ SignatureIdle
    /\ CastIdle
    /\ SizingIdle
    /\ Layout2Idle
    /\ WalkIdle
    /\ heap = NoHeap

HeapFrame ==
    UNCHANGED <<row_layout, native, target, null_sigil, debug_assertions,
                args, null_column, garbage, body, exprs, expr_layouts,
                stack_slots, function_inputs, insts, slots, nvalues,
                layouts, panicked, cache_log, svars, wvars, cast, sizing, layout2>>

\* An allocation of `length` rows through `call`, the StdLayout given to
\* std::alloc::alloc if it is called, which succeeds or returns null.
Allocate(op, length, call) ==
    /\ heap.ops < MaxHeapOps
    /\ \E ok \in BOOLEAN :
          LET ptr == IF call = None THEN Dangling
                     ELSE IF ok THEN heap.next ELSE NullPtr
          IN  heap' =
                [calls |-> IF call = None THEN heap.calls
                           ELSE Append(heap.calls,
                                       [op |-> "alloc", ptr |-> ptr,
                                        layout |-> call[1]]),
                 live |-> IF ptr = NullPtr THEN heap.live
                          ELSE Append(heap.live,
                                      [op |-> op, ptr |-> ptr,
                                       length |-> length]),
                 next |-> IF ptr = heap.next THEN heap.next + 1
                          ELSE heap.next,
                 ops |-> heap.ops + 1,
                 last |-> [op |-> op, length |-> length, ptr |-> ptr,
                           called |-> call # None]]
    /\ HeapFrame

\* The release of the h-th live allocation through `call`.
Release(op, h, call) ==
    /\ heap.ops < MaxHeapOps
    /\ heap' =
          [heap EXCEPT
             !.calls = IF call = None THEN @
                       ELSE Append(@, [op |-> "dealloc",
                                       ptr |-> heap.live[h].ptr,
                                       layout |-> call[1]]),
             !.live = SubSeq(@, 1, h - 1) \o SubSeq(@, h + 1, Len(@)),
             !.ops = @ + 1,
             !.last = [op |-> op, length |-> heap.live[h].length,
                       ptr |-> heap.live[h].ptr, called |-> call # None]]
    /\ HeapFrame

Alloc == Allocate("alloc", 1, alloc(native))

AllocArray ==
    \E length \in 0..MaxLength :
        Allocate("alloc_array", length, alloc_array(native, length))

\* dealloc of a pointer that alloc returned.
Dealloc ==
    \E h \in 1..Len(heap.live) :
        /\ heap.live[h].op = "alloc"
        /\ Release("dealloc", h, dealloc(native))

\* dealloc_array of a pointer that alloc_array returned, with its length.
DeallocArray ==
    \E h \in 1..Len(heap.live) :
        /\ heap.live[h].op = "alloc_array"
        /\ Release("dealloc_array", h,
                   dealloc_array(native, heap.live[h].length))

NextHeap ==
    \/ Alloc
    \/ AllocArray
    \/ Dealloc
    \/ DeallocArray

SpecHeap == InitHeap /\ [][NextHeap]_vars

----------------------------------------------------------------------------
(* The layout synthesizer applied to bounded row layouts.                  *)

Columns == [ty : RowTypes, nullable : BOOLEAN]

RECURSIVE Repeated(_, _)
Repeated(col, n) == IF n = 0 THEN <<>> ELSE <<col>> \o Repeated(col, n - 1)

\* Row layouts of at most MaxCols free columns, and those that end with a
\* nullable null_column followed by at most MaxRepeat more copies of it (more
\* nullable columns than one bitset byte has bits).
RowLayouts ==
    LET Short == UNION {[1..n -> Columns] : n \in 0..MaxCols}
    IN  Short
        \cup {h \o Repeated(h[Len(h)], k) :
                h \in {g \in Short : Len(g) > 0 /\ g[Len(g)].nullable},
                k \in 1..MaxRepeat}

InitLayout ==
    /\ row_layout \in RowLayouts
    /\ target \in PointerWidths
    /\ native = NoLayout
    /\ NoLowering
    /\ NoRequests
    /\ SignatureIdle
    /\ CastIdle
    /\ OthersIdle
    /\ WalkIdle

FromRow ==
    /\ native = NoLayout
    /\ native' = from_row(row_layout, target)
    /\ UNCHANGED <<row_layout, target>>
    /\ UNCHANGED lvars
    /\ UNCHANGED <<cache_log, svars, wvars, cast, ovars>>

NextLayout == FromRow

SpecLayout == InitLayout /\ [][NextLayout]_vars

----------------------------------------------------------------------------
(* Layout::from_row2.                                                      *)

\* Type::from_row_type: None for a Unit row type.
from_row_type(row_type) ==
    IF row_type = "Unit" THEN None ELSE Some(row_type_to_type(row_type))

\* u32::trailing_zeros of a power of two up to 8.
trailing_zeros(n) ==
    CASE n = 1 -> 0
      [] n = 2 -> 1
      [] n = 4 -> 2
      [] n = 8 -> 3

\* The key of sort_by_key: (!row_type.is_unit(), Reverse((effective_align,
\* niches))) with niches = 0.
sort_key(row_type, tgt) ==
    LET ty == from_row_type(row_type)
    IN  [not_unit |-> row_type # "Unit",
         effective_align |->
             trailing_zeros(IF ty # None
                            THEN Max(Type_align(ty[1], tgt),
                                     Type_size(ty[1], tgt))
                            ELSE 1)]

\* The order of the keys: false before true, then the larger effective
\* alignment first (Reverse).
key_less(a, b) ==
    \/ ~a.not_unit /\ b.not_unit
    \/ a.not_unit = b.not_unit /\ a.effective_align > b.effective_align

RECURSIVE insert_by_key(_, _, _, _)
\* x put behind every index of the sorted prefix whose key is not greater.
insert_by_key(sorted, x, rl, tgt) ==
    IF sorted = <<>> THEN <<x>>
    ELSE IF key_less(sort_key(rl[x + 1].ty, tgt),
                     sort_key(rl[Head(sorted) + 1].ty, tgt))
         THEN <<x>> \o sorted
         ELSE <<Head(sorted)>> \o insert_by_key(Tail(sorted), x, rl, tgt)

RECURSIVE sort_by_key(_, _, _)
\* The stable sort of the indices by their keys.
sort_by_key(indices, rl, tgt) ==
    IF indices = <<>> THEN <<>>
    ELSE insert_by_key(
             sort_by_key(SubSeq(indices, 1, Len(indices) - 1), rl, tgt),
             indices[Len(indices)], rl, tgt)

\* invert_mapping
invert_mapping(map) ==
    [idx \in 1..Len(map) |->
        (CHOOSE j \in 1..Len(map) : map[j] = idx - 1) - 1]

RECURSIVE place_fields(_, _, _, _, _)
\* The loop of from_row2 over inverse_field_index.
place_fields(st, order, k, rl, tgt) ==
    IF k > Len(order) THEN st
    ELSE LET idx == order[k]
             field_ty == from_row_type(rl[idx + 1].ty)
             field_size == IF field_ty # None
                           THEN Type_size(field_ty[1], tgt) ELSE 0
             field_align == IF field_ty # None
                            THEN Type_align(field_ty[1], tgt) ELSE 1
             at == st.offset + padding_needed_for(st.offset, field_align)
             placed ==
                 [offsets |-> [st.offsets EXCEPT ![idx + 1] = at],
                  types |-> IF field_ty # None
                            THEN [st.types EXCEPT ![idx + 1] = field_ty[1]]
                            ELSE st.types,
                  align |-> Max(st.align, field_align),
                  offset |-> at + field_size]
         IN  place_fields(placed, order, k + 1, rl, tgt)

\* Layout::from_row2: what it has computed when it reaches its last
\* statement, todo!(), which panics.
from_row2(rl, optimize_layouts, tgt) ==
    LET identity == [i \in 1..Len(rl) |-> i - 1]
        inverse_field_index ==
            IF optimize_layouts THEN sort_by_key(identity, rl, tgt)
            ELSE identity
        start == [offsets |-> [i \in 1..Len(rl) |-> 0],
                  types |-> [i \in 1..Len(rl) |-> "U8"],
                  align |-> 1, offset |-> 0]
        placed == place_fields(start, inverse_field_index, 1, rl, tgt)
    IN  [stage |-> "called",
         optimize_layouts |-> optimize_layouts,
         memory_index |-> IF optimize_layouts
                          THEN invert_mapping(inverse_field_index)
                          ELSE inverse_field_index,
         offsets |-> placed.offsets,
         types |-> placed.types,
         size |-> placed.offset
                      + padding_needed_for(placed.offset, placed.align),
         align |-> placed.align,
         panicked |-> TRUE]

\* The row layout of tests::layout_normalization.
layout_normalization ==
    <<[ty |-> "U32", nullable |-> FALSE], [ty |-> "U16", nullable |-> FALSE],
      [ty |-> "U64", nullable |-> FALSE], [ty |-> "U16", nullable |-> FALSE],
      [ty |-> "Unit", nullable |-> FALSE]>>

\* Row layouts without nullable columns: the one of the test and the short
\* ones.
PlainRows ==
    {layout_normalization}
    \cup UNION {[1..n -> [ty : RowTypes, nullable : {FALSE}]] : n \in 0..2}

InitNormalize ==
    /\ row_layout \in PlainRows
    /\ target \in PointerWidths
    /\ native = NoLayout
    /\ NoLowering
    /\ NoRequests
    /\ SignatureIdle
    /\ CastIdle
    /\ SizingIdle
    /\ HeapIdle
    /\ WalkIdle
    /\ \E optimize_layouts \in BOOLEAN :
           layout2 = [stage |-> "config",
                      optimize_layouts |-> optimize_layouts]

\* Layout::from_row2(&row, &LayoutConfig::new(target, optimize_layouts))
FromRow2 ==
    /\ layout2.stage = "config"
    /\ layout2' = from_row2(row_layout, layout2.optimize_layouts, target)
    /\ UNCHANGED <<row_layout, native, target, null_sigil, debug_assertions,
                   args, null_column, garbage, body, exprs, expr_layouts,
                   stack_slots, function_inputs, insts, slots, nvalues,
                   layouts, panicked, cache_log, svars, wvars, cast, sizing,
                   heap>>

NextNormalize ==
    \/ FromRow
    \/ FromRow2

SpecNormalize == InitNormalize /\ [][NextNormalize]_vars

----------------------------------------------------------------------------
(* Properties of the synthesized layout.                                   *)

Built == native # NoLayout

\* The columns of the row layout, 0-based.
ColumnIds == 0..(Len(row_layout) - 1)

NonUnit == {c \in ColumnIds : row_layout[c + 1].ty # "Unit"}

Nullable == {c \in ColumnIds : row_layout[c + 1].nullable}

\* The first byte of a non-Unit column and the first byte after it.
ColumnStart(c) == offset_of(native, c)

ColumnEnd(c) == offset_of(native, c) + Type_size(type_of(native, c), target)

\* The physical entries, 0-based, and those that are bitset bytes.
PhysicalIds == 0..(Len(native.types) - 1)

BitsetIds == {i \in PhysicalIds : is_u8(native.types[i + 1])}

\* The physical entries that hold the data of a column.
DataIds == {native.index_mappings[c + 1] : c \in NonUnit}

\* C1: the byte ranges of any two distinct non-Unit columns are disjoint, and
\* no non-Unit column contains the byte of a nullability bitset entry.
C1_ColumnsDisjoint ==
    Built =>
        /\ \A c, d \in NonUnit :
              c # d => (ColumnEnd(c) <= ColumnStart(d) \/ ColumnEnd(d) <= ColumnStart(c))
        /\ \A c \in NonUnit : \A i \in BitsetIds :
              (native.offsets[i + 1] < ColumnStart(c)
               \/ ColumnEnd(c) <= native.offsets[i + 1])

\* C1 witness: two data columns and a bitset byte placed in the padding
\* between them.
C1_Witness ==
    /\ Built
    /\ row_layout = <<[ty |-> "Bool", nullable |-> TRUE],
                      [ty |-> "U32", nullable |-> FALSE]>>
    /\ native.offsets = <<0, 1, 4>>
    /\ native.types = <<"Bool", "U8", "U32">>

\* C2: every non-Unit column starts at a multiple of its type's alignment and
\* ends within the layout's size.
C2_AlignedAndInBounds ==
    Built =>
        \A c \in NonUnit :
            /\ offset_of(native, c) % Type_align(type_of(native, c), target) = 0
            /\ offset_of(native, c) + Type_size(type_of(native, c), target)
                  <= native.size

\* C2 witness: a column that needed padding in front of it.
C2_Witness ==
    /\ Built
    /\ row_layout = <<[ty |-> "U16", nullable |-> FALSE],
                      [ty |-> "U64", nullable |-> FALSE]>>
    /\ offset_of(native, 1) = 8
    /\ native.size = 16

\* C3: size is a multiple of align, align is the largest alignment of the
\* materialized entries (1 without any) and is one of 1, 2, 4, 8.
C3_SizeMultipleOfAlign ==
    Built =>
        /\ native.size % native.align = 0
        /\ native.align >= 1
        /\ \A i \in PhysicalIds :
              Type_align(native.types[i + 1], target) <= native.align
        /\ native.align = 1
              \/ \E i \in PhysicalIds :
                    Type_align(native.types[i + 1], target) = native.align
        /\ native.align \in {1, 2, 4, 8}

\* C3 witness: a layout whose size needed the final padding.
C3_Witness ==
    /\ Built
    /\ row_layout = <<[ty |-> "U64", nullable |-> TRUE]>>
    /\ native.offsets = <<0, 8>>
    /\ native.align = 8
    /\ native.size = 16

\* C4: the (bitset index, bit) pairs of the nullable columns are pairwise
\* distinct, whatever the number of nullable columns.
C4_NullFlagsInjective ==
    Built =>
        \A c, d \in Nullable :
            c # d => native.bitflag_mappings[c + 1] # native.bitflag_mappings[d + 1]

\* C5: a column has a null-flag entry exactly when it is nullable in the row
\* layout; the entry's bit is in 0..7 and its index is that of a U8 bitset
\* entry, never of a data column.
C5_NullFlagIffNullable ==
    Built =>
        \A c \in ColumnIds :
            /\ is_nullable(native, c) <=> row_layout[c + 1].nullable
            /\ is_nullable(native, c) =>
                  LET m == native.bitflag_mappings[c + 1][1]
                  IN  /\ m[2] \in 0..7
                      /\ m[1] \in BitsetIds
                      /\ m[1] \notin DataIds
                      /\ nullability_of(native, c)[1] = "U8"

\* C5 witness: a nullable column next to a column that is not nullable.
C5_Witness ==
    /\ Built
    /\ row_layout = <<[ty |-> "U32", nullable |-> TRUE],
                      [ty |-> "U16", nullable |-> FALSE]>>
    /\ native.bitflag_mappings = <<Some(<<2, 0>>), None>>
    /\ native.types = <<"U32", "U16", "U8">>

----------------------------------------------------------------------------
(* Properties of the lowered code.                                         *)

\* The expression lowered last, and whether its lowering completed.
Last == body[Len(body)]

Lowered(kind) ==
    /\ Len(body) > 0
    /\ Len(insts) = Len(body)
    /\ Last.kind = kind

\* The region of memory a row expression denotes.
RowRegion(row) ==
    IF row \in DOMAIN stack_slots THEN RegionOfSlot(stack_slots[row])
    ELSE exprs[row] + 1

\* The boolean a SetNull was given, as the machine sees it before the
\* SetNull runs at position k of the body.
GivenBool(is_null, k) ==
    IF is_null[1] = "Imm" THEN is_null[2][2]
    ELSE Run(k - 1).vals[exprs[is_null[2]]] # 0

\* An IsNull lowered right after a SetNull on the same row and column.
SetNullThenIsNull ==
    /\ Len(body) > 1
    /\ Lowered("IsNull")
    /\ body[Len(body) - 1].kind = "SetNull"
    /\ body[Len(body) - 1].target = Last.target
    /\ body[Len(body) - 1].column = Last.column

\* C6: the code lowered for SetNull(R, c, b) followed by IsNull(R, c) makes
\* IsNull evaluate to b, for stack-slot and pointer rows, both values of b,
\* both null sigils, b immediate or computed.
C6_SetNullIsNullRoundTrip ==
    SetNullThenIsNull =>
        (Run(Len(body)).vals[exprs[Last.id]] =
            IF GivenBool(body[Len(body) - 1].is_null, Len(body) - 1)
            THEN 1 ELSE 0)

\* C6 witness: under the Zero sigil, a computed TRUE was stored into the null
\* flag of column 1 of a stack-slot row of [U32?, U16?] and read back as 1.
C6_Witness ==
    /\ SetNullThenIsNull
    /\ null_sigil = "Zero"
    /\ null_column = 1
    /\ layout_id(Last.target) = 1
    /\ Last.target \in DOMAIN stack_slots
    /\ body[Len(body) - 1].is_null[1] = "Expr"
    /\ GivenBool(body[Len(body) - 1].is_null, Len(body) - 1)
    /\ Run(Len(body)).vals[exprs[Last.id]] = 1

\* An IsNull lowered right after the NullRow that built its row.
NullRowThenIsNull ==
    /\ Len(body) > 1
    /\ Lowered("IsNull")
    /\ body[Len(body) - 1].kind = "NullRow"
    /\ body[Len(body) - 1].id = Last.target

\* C7: IsNull(r, c) on the row r produced by NullRow(layout), with no write
\* in between, is true for every nullable column c and both null sigils.
C7_IsNullOfNullRow ==
    NullRowThenIsNull => Run(Len(body)).vals[exprs[Last.id]] = 1

\* C8: NullRow(layout) fills all bytes of the new stack slot with 0xFF under
\* the One sigil and with 0x00 under the Zero sigil.
C8_NullRowFillByte ==
    Lowered("NullRow") =>
        \A j \in 1..layouts[Last.layout].size :
            Run(Len(body)).mem[RowRegion(Last.id)][j] =
                IF null_sigil = "One" THEN 255 ELSE 0

\* A CopyRowTo between two different rows, the destination writable.
CopiedDistinctRows ==
    /\ Lowered("CopyRowTo")
    /\ Last.src # Last.dest
    /\ ~is_readonly(Last.dest)

\* C9: after the code lowered for CopyRowTo(r1, r2, L) with r1 # r2 runs, r2
\* is byte-equal to r1 over [0, L.size) and r1 is unchanged.
C9_CopyRowToCopies ==
    CopiedDistinctRows =>
        LET before == Run(Len(body) - 1)
            after == ExecAll(before, insts[Len(body)], 1).mem
            r1 == before.mem[RowRegion(Last.src)]
        IN  /\ Len(r1) = layouts[Last.layout].size
            /\ after[RowRegion(Last.dest)] = r1
            /\ after[RowRegion(Last.src)] = r1

\* C9 witness: a pointer row of [U32?, U16?] was copied into a stack-slot row
\* whose bytes differed from it before the copy.
C9_Witness ==
    /\ CopiedDistinctRows
    /\ Last.layout = 1
    /\ Last.dest \in DOMAIN stack_slots
    /\ Last.src \notin DOMAIN stack_slots
    /\ Run(Len(body) - 1).mem[RowRegion(Last.dest)]
         # Run(Len(body) - 1).mem[RowRegion(Last.src)]
    /\ Run(Len(body)).mem[RowRegion(Last.dest)]
         = Run(Len(body) - 1).mem[RowRegion(Last.src)]

\* A step that lowers a CopyRowTo whose source and destination are the same
\* expression.
LowersSelfCopy ==
    /\ Len(body') = Len(body) + 1
    /\ body'[Len(body')].kind = "CopyRowTo"
    /\ body'[Len(body')].src = body'[Len(body')].dest
    /\ ~panicked'

\* C10: lowering CopyRowTo(r, r, L) emits no instruction and leaves every
\* row and the expression, stack-slot and layout maps unchanged.
C10_SelfCopyIsNoop ==
    [][LowersSelfCopy =>
          /\ insts' = Append(insts, <<>>)
          /\ ExecAll(Run(Len(body)), insts'[Len(insts')], 1).mem
               = Run(Len(body)).mem
          /\ UNCHANGED <<exprs, expr_layouts, stack_slots, layouts, slots,
                         nvalues>>]_vars

\* C10 witness: CopyRowTo(r, r, L) was lowered for a stack-slot row r of the
\* layout [U32?, U16?].
C10_Witness ==
    /\ Lowered("CopyRowTo")
    /\ Last.src = Last.dest
    /\ Last.layout = 1
    /\ Last.src \in DOMAIN stack_slots
    /\ insts[Len(insts)] = <<>>

\* The row an expression writes to.
WrittenRow(e) == IF e.kind = "CopyRowTo" THEN e.dest ELSE e.target

\* The expression is a parameter flagged readonly.
FlaggedReadonly(expr) ==
    expr \in DOMAIN function_inputs /\ function_inputs[expr] = "readonly"

\* A step that reaches a Store, SetNull or CopyRowTo of the body.
ReachesWrite ==
    /\ Len(body') = Len(body) + 1
    /\ body'[Len(body')].kind \in {"Store", "SetNull", "CopyRowTo"}

\* C11: in a build with debug assertions, lowering a Store, SetNull or
\* CopyRowTo whose target is a readonly parameter fails its assertion before
\* any instruction is emitted for it; with a target that is not readonly the
\* lowering does not fail (unless the Store's immediate cannot be lowered).
C11_ReadonlyTargetAsserted ==
    [][ReachesWrite =>
          LET e == body'[Len(body')]
          IN  /\ (debug_assertions /\ FlaggedReadonly(WrittenRow(e)))
                    => (panicked' /\ insts' = insts)
              /\ (~FlaggedReadonly(WrittenRow(e))
                     /\ ~(e.kind = "Store" /\ e.value[1] = "Imm"
                          /\ constant_panics(e.value[2])))
                    => (~panicked' /\ Len(insts') = Len(insts) + 1)]_vars

\* C11 witness: a Store into a readonly parameter of [U32?, U16?] stopped the
\* lowering with nothing emitted for it.
C11_Witness ==
    /\ panicked
    /\ debug_assertions
    /\ Last.kind = "Store"
    /\ FlaggedReadonly(Last.target)
    /\ layout_id(Last.target) = 1
    /\ Len(insts) = Len(body) - 1

\* The requests for a layout id made so far.
RequestsFor(id) == {k \in 1..Len(cache_log) : cache_log[k].id = id}

\* Layout::from_row ran on the first request for an id and on no other, and
\* every request returned the layout stored for the id.
SynthesizedOnce ==
    \A id \in LayoutIds :
        \A k \in RequestsFor(id) :
            /\ cache_log[k].synthesized <=> (\A j \in RequestsFor(id) : k <= j)
            /\ id \in DOMAIN layouts
            /\ cache_log[k].native_layout = layouts[id]
            /\ layouts[id] = from_row(layout_cache_get(id), target)

\* C12: across compute and get_layouts requests the layout of an id is
\* synthesized at most once, on the first request, later requests return the
\* stored layout, and no entry is removed or replaced.
C12_CacheAppendOnly ==
    /\ []SynthesizedOnce
    /\ [][\A id \in DOMAIN layouts :
             id \in DOMAIN layouts' /\ layouts'[id] = layouts[id]]_vars

\* C12 witness: [U32?, U16?] was asked for by compute, then another layout,
\* then [U32?, U16?] again by get_layouts, which found it stored.
C12_Witness ==
    /\ Len(cache_log) = 3
    /\ cache_log[1].id = 1 /\ cache_log[1].op = "compute"
    /\ cache_log[1].synthesized
    /\ cache_log[2].id = 2
    /\ cache_log[3].id = 1 /\ cache_log[3].op = "get_layouts"
    /\ ~cache_log[3].synthesized
    /\ cache_log[3].native_layout = cache_log[1].native_layout
    /\ DOMAIN layouts = {1, 2}

\* C13: build_signature gives one pointer-typed parameter per argument
\* layout, in order, and one pointer-typed return value if the return layout
\* is not zero-sized, none if it is.
C13_SignatureShape ==
    clif_sig # NoClifSignature =>
        /\ Len(clif_sig.params) = Len(signature.args)
        /\ \A i \in 1..Len(signature.args) :
              clif_sig.params[i] = pointer_type(target)
        /\ clif_sig.returns =
              IF from_row(layout_cache_get(signature.ret), target).size # 0
              THEN <<pointer_type(target)>> ELSE <<>>

\* C13 witness: the signature ([U32?, U16?], [Unit, Unit], [Bool?]) -> [Bool?]
\* got three pointer parameters and one pointer return value.
C13_Witness ==
    /\ signature = [args |-> <<1, 3, 2>>, ret |-> 2]
    /\ clif_sig.params = <<pointer_type(target), pointer_type(target),
                           pointer_type(target)>>
    /\ clif_sig.returns = <<pointer_type(target)>>

\* The branch and jump edges emitted so far, as <<from, to>> ClifBlocks.
Edges ==
    UNION {{<<c - 1, block_code[c][k].block>> :
               k \in {j \in 1..Len(block_code[c]) :
                         block_code[c][j].op \in {"brz", "jump"}}} :
           c \in 1..Len(block_code)}

\* C14: a block is sealed only after every branch or jump edge into it has
\* been emitted: no edge is ever added into a block that is already sealed.
C14_SealedAfterPredecessors ==
    [][\A e \in Edges' \ Edges : e[2] \notin sealed]_vars

\* The blocks lowered so far that end in a Branch.
LoweredBranches ==
    {b \in visited : function_blocks[b].terminator.kind = "Branch"}

\* C15: the code emitted for Branch(cond, truthy, falsy) transfers control to
\* the truthy block when cond is true (non-zero) and to the falsy block when
\* cond is false (zero).
C15_BranchPolarity ==
    \A b \in LoweredBranches :
        LET t == function_blocks[b].terminator
            vals == Run(Len(body)).vals
        IN  Successor(block_code[ctx_blocks[b] + 1], vals, 1) =
                IF vals[exprs[t.cond[2]]] # 0
                THEN ctx_blocks[t.truthy] ELSE ctx_blocks[t.falsy]

\* The row layout has only Unit columns (the empty layout included).
AllUnit == \A c \in ColumnIds : row_layout[c + 1].ty = "Unit"

\* C16, as stated: a layout whose columns are all Unit, whatever their
\* nullability flags, and the empty layout, have size 0, alignment 1 and
\* report is_zero_sized.
C16_AllUnitZeroSized_AsStated ==
    Built /\ AllUnit =>
        native.size = 0 /\ native.align = 1 /\ is_zero_sized(native)

\* C16: a layout whose columns are all Unit and none of them nullable, and
\* the empty layout, have size 0, alignment 1 and report is_zero_sized; an
\* all-Unit layout with a nullable column holds its bitset and is not
\* zero-sized.
C16_AllUnitZeroSized ==
    Built /\ AllUnit =>
        /\ native.align = 1
        /\ is_zero_sized(native) <=> Nullable = {}
        /\ Nullable = {} => native.size = 0 /\ native.types = <<>>

C16_Witness ==
    /\ Built
    /\ row_layout = <<[ty |-> "Unit", nullable |-> FALSE],
                      [ty |-> "Unit", nullable |-> FALSE]>>
    /\ is_zero_sized(native)

\* The Unit columns of the row layout.
UnitColumns == ColumnIds \ NonUnit

\* The physical entries emitted when the loop of from_row reaches column c:
\* those up to the data entry of the last non-Unit column before c.
EmittedBefore(c) ==
    {i \in PhysicalIds :
        \E p \in NonUnit : p < c /\ i <= native.index_mappings[p + 1]}

\* The row layout without its Unit columns that are not nullable.
is_plain_unit(col) == col.ty = "Unit" /\ ~col.nullable

WithoutPlainUnits == SelectSeq(row_layout, LAMBDA col : ~is_plain_unit(col))

\* C17: a Unit column emits no physical entry and adds no bytes (every
\* physical entry is the data of one non-Unit column or a bitset entry, and
\* dropping the Unit columns leaves the physical layout as it is), and it
\* maps to the count of physical entries emitted before it, the index of the
\* next one; a non-Unit column maps to the entry holding its own data.
C17_UnitColumnsArePhantom ==
    Built =>
        /\ Len(native.index_mappings) = Len(row_layout)
        /\ \A c \in UnitColumns :
               native.index_mappings[c + 1] = Cardinality(EmittedBefore(c))
        /\ \A c \in NonUnit :
               /\ native.index_mappings[c + 1] \in PhysicalIds
               /\ native.types[native.index_mappings[c + 1] + 1] =
                      row_type_to_type(row_layout[c + 1].ty)
               /\ \A d \in NonUnit :
                      c < d => native.index_mappings[c + 1]
                                   < native.index_mappings[d + 1]
        /\ PhysicalIds \ DataIds \subseteq BitsetIds
        /\ Cardinality(DataIds) = Cardinality(NonUnit)
        /\ LET plain == from_row(WithoutPlainUnits, target)
           IN  /\ plain.size = native.size
               /\ plain.align = native.align
               /\ plain.types = native.types
               /\ plain.offsets = native.offsets

\* A Unit column between two data columns: it shares the index of the entry
\* that follows it.
C17_Witness ==
    /\ Built
    /\ Len(row_layout) >= 2
    /\ row_layout[1].ty = "Unit"
    /\ row_layout[2].ty = "U32"
    /\ native.index_mappings[1] = 0
    /\ native.index_mappings[2] = 0
    /\ Len(native.types) >= 1

\* C20: the number of one-byte bitset entries of the layout is ceil(N / 8),
\* N the number of columns flagged nullable (none when N = 0).
C20_BitsetCount ==
    Built =>
        /\ Cardinality(BitsetIds) = (Cardinality(Nullable) + 7) \div 8
        /\ \A i \in BitsetIds : Type_size(native.types[i + 1], target) = 1

\* Nine nullable columns need a second bitset byte.
C20_Witness ==
    /\ Built
    /\ Cardinality(Nullable) = 9
    /\ Cardinality(BitsetIds) = 2

\* The positions of the body that hold a Constant expression.
ConstantsLowered == {k \in 1..Len(body) : body[k].kind = "Constant"}

\* C18: lowering Constant(c) emits exactly one typed immediate for every
\* integer (U8 to I64), float and bool constant, without failing, and the
\* Unit constant is rejected.
C18_ScalarConstantsLower ==
    /\ \A ty \in ConstantVariants :
          is_int(<<ty, 0>>) \/ is_float(<<ty, 0>>) \/ is_bool(<<ty, 0>>)
             => ty \in iconst_arms
    /\ \A k \in ConstantsLowered :
        LET c == body[k].value
        IN  /\ is_int(c) \/ is_float(c) \/ is_bool(c) =>
                  /\ k <= Len(insts)
                  /\ Len(insts[k]) = 1
                  /\ insts[k][1].op \in {"iconst", "f32const", "f64const"}
            /\ c[1] = "Unit" => k > Len(insts) /\ panicked

\* The Cast under test was given to is_valid_cast.
CastChecked == cast.checked

\* C19: between distinct types, a cast from Bool is accepted only when its
\* target is an integer type, and every cast from a non-Bool type to Bool is
\* rejected.
C19_BoolCasts ==
    CastChecked /\ cast.from # cast.to =>
        /\ cast.from = "Bool" /\ cast.valid => ColumnType_is_int(cast.to)
        /\ cast.from # "Bool" /\ cast.to = "Bool" => ~cast.valid

\* C21: overflow of the running size is a hard failure: from_row never
\* returns a Layout after one of its additions to size went past 2^32 - 1.
C21_SizeOverflowIsFatal ==
    sizing.stage = "returned" => ~sizing.wrapped

\* The last operation needs no memory: a zero-sized layout, or no row.
NothingToAllocate == is_zero_sized(native) \/ heap.last.length = 0

\* The call of std::alloc::alloc that returned the pointer of release j.
AllocationOf(j) ==
    {i \in 1..(j - 1) :
        /\ heap.calls[i].op = "alloc"
        /\ heap.calls[i].ptr = heap.calls[j].ptr}

\* C22: alloc and alloc_array return the dangling sentinel without a call of
\* the system allocator exactly for a zero-sized layout or no row, dealloc
\* and dealloc_array are no-ops in exactly those cases, and every release
\* passes the size and alignment its allocation asked for, length * size
\* bytes at align for an array.
C22_AllocDeallocAgree ==
    /\ heap.last.op \in {"alloc", "alloc_array"} =>
          /\ NothingToAllocate <=> ~heap.last.called
          /\ NothingToAllocate <=> heap.last.ptr = Dangling
    /\ heap.last.op \in {"dealloc", "dealloc_array"} =>
          (NothingToAllocate <=> ~heap.last.called)
    /\ \A j \in 1..Len(heap.calls) :
          /\ heap.calls[j].layout.align = native.align
          /\ heap.calls[j].layout.size % native.size = 0
          /\ heap.calls[j].op = "dealloc" =>
                /\ AllocationOf(j) # {}
                /\ \A i \in AllocationOf(j) :
                      heap.calls[i].layout = heap.calls[j].layout
    /\ heap.last.op # "none" /\ heap.last.called =>
          heap.calls[Len(heap.calls)].layout.size =
              heap.last.length * native.size

\* An array of three rows was allocated and released.
C22_Witness ==
    /\ heap.last.op = "dealloc_array"
    /\ heap.last.length = 3
    /\ heap.last.called
    /\ native.size = 16
    /\ heap.calls[Len(heap.calls)].layout = [size |-> 48, align |-> 8]

\* C23: on the row layout [U32, U16, U64, U16, Unit] and a 64-bit target,
\* from_row returns a Layout and from_row2 with optimize_layouts = true runs
\* to completion without panicking.
C23_NormalizationCompletes ==
    row_layout = layout_normalization /\ target = 8 =>
        /\ Built => native.size = 24 /\ native.align = 8
        /\ layout2.stage = "called" /\ layout2.optimize_layouts =>
               ~layout2.panicked

----------------------------------------------------------------------------
\* The blocks the terminator of block b leads to.
Successors(b) ==
    LET t == function_blocks[b].terminator
    IN  CASE t.kind = "Jump" -> {t.target}
          [] t.kind = "Branch" -> {t.truthy, t.falsy}
          [] OTHER -> {}

RECURSIVE ReachableFrom(_)
\* The blocks that paths from the blocks of S reach, S included.
ReachableFrom(S) ==
    LET N == S \cup UNION {Successors(b) : b \in S}
    IN  IF N = S THEN S ELSE ReachableFrom(N)

\* The instructions of block b as the walk lowers them: its body in source
\* order, then its terminator.
LoweringOf(b) ==
    LET c == function_blocks[b]
        At(id) == CHOOSE k \in 1..Len(body) : body[k].id = id
    IN  Flatten([k \in 1..Len(c.body) |-> insts[At(c.body[k].id)]])
        \o codegen_terminator(c.terminator, exprs, ctx_blocks,
                              Len(block_code), nvalues).insts

\* What the walk has done so far: it lowered reachable blocks only, each of
\* them once, and the blocks it did not lower are empty.
WalkSound ==
    /\ visited \subseteq ReachableFrom({entry_block})
    /\ \A b \in visited :
          block_code[ctx_blocks[b] + 1] = LoweringOf(b)
    /\ \A b \in DOMAIN ctx_blocks \ visited :
          block_code[ctx_blocks[b] + 1] = <<>>
    /\ finished => /\ stack = <<>>
                   /\ visited = ReachableFrom({entry_block})

\* A lowered block is never lowered again.
LoweredStays ==
    \A b \in visited :
        /\ b \in visited'
        /\ block_code'[ctx_blocks'[b] + 1] = block_code[ctx_blocks[b] + 1]

\* C24: on every control-flow graph, cycles and branches with one target
\* twice included, the walk ends with an empty worklist, having lowered each
\* reachable block exactly once (its body in source order, then its
\* terminator) and no unreachable block.
C24_WalkTerminates ==
    /\ []WalkSound
    /\ [][LoweredStays]_vars
    /\ <>finished

\* C24 witness: a finished walk of a function with a branch whose targets
\* coincide, a block on a cycle, and a block left out for being unreachable.
C24_Witness ==
    /\ finished
    /\ visited # DOMAIN function_blocks
    /\ \E b \in visited :
          /\ function_blocks[b].terminator.kind = "Branch"
          /\ function_blocks[b].terminator.truthy
                = function_blocks[b].terminator.falsy
    /\ \E b \in visited : b \in ReachableFrom(Successors(b))
----------------------------------------------------------------------------
\* The expressions block b reads: the operands of its body and of its
\* terminator.
UsedIn(b) ==
    LET c == function_blocks[b]
        t == c.terminator
    IN  UNION {{c.body[k].lhs, c.body[k].rhs} :
                 k \in {j \in 1..Len(c.body) : c.body[j].kind = "BinOp"}}
        \cup (IF t.kind = "Branch" /\ t.cond[1] = "Expr" THEN {t.cond[2]}
              ELSE IF t.kind = "Return" /\ t.value[1] = "Expr"
              THEN {t.value[2]} ELSE {})

\* The parameters of the function: defined before the entry block runs.
Params == {args[k].expr_id : k \in 1..Len(args)}

\* The blocks whose body defines expression e.
DefBlocks(e) ==
    {b \in DOMAIN function_blocks :
        \E k \in 1..Len(function_blocks[b].body) :
            function_blocks[b].body[k].id = e}

RECURSIVE ReachableAvoiding(_, _)
\* The blocks that paths from the blocks of S reach without entering d.
ReachableAvoiding(S, d) ==
    LET N == S \cup (UNION {Successors(b) : b \in S} \ {d})
    IN  IF N = S THEN S ELSE ReachableAvoiding(N, d)

\* Block d dominates block b: every path from the entry block to b passes
\* through d.
Dominates(d, b) == b \notin ReachableAvoiding({entry_block} \ {d}, d)

\* Every expression a block uses is a parameter or is defined in one block,
\* which dominates the using block.
DefsDominateUses ==
    \A b \in DOMAIN function_blocks :
        \A e \in UsedIn(b) \ Params :
            /\ DefBlocks(e) # {}
            /\ \A d \in DefBlocks(e) : Dominates(d, b)

\* The step that lowers a block finds the defining block of each of its
\* operands lowered already, the block itself counted.
DefinedBeforeUse ==
    \A b \in visited' \ visited :
        \A e \in UsedIn(b) \ Params :
            DefBlocks(e) \subseteq visited'

\* C25: when each value's defining block dominates every block using it, the
\* walk lowers the defining block before any use, whatever the order in
\* which it pops the blocks, so that no lookup in Ctx::exprs fails.
C25_DefsLoweredBeforeUses ==
    /\ [](DefsDominateUses => ~panicked)
    /\ [][DefsDominateUses => DefinedBeforeUse]_vars

\* C25 witness: a finished walk that lowered a use of a value defined in
\* another block than the entry block, which dominates the using block.
C25_Witness ==
    /\ finished
    /\ DefsDominateUses
    /\ \E b \in visited :
          \E e \in UsedIn(b) \ Params :
              DefBlocks(e) \cap {b, entry_block} = {}

\* The lookups in Ctx::exprs do fail without dominance.
LookupFails == panicked /\ ~DefsDominateUses
----------------------------------------------------------------------------
\* The physical entries that hold data columns, and those that hold bitset
\* bytes.
DataEntries == {native.index_mappings[c + 1] : c \in NonUnit}

BitsetEntries == (0..(Len(native.types) - 1)) \ DataEntries

\* Byte p of the row belongs to a physical entry.
Occupied(p) ==
    \E i \in 1..Len(native.types) :
        /\ native.offsets[i] <= p
        /\ p < native.offsets[i] + Type_size(native.types[i], target)

\* A bitset byte lies after the last data column.
BitsetAfterData ==
    \E j \in BitsetEntries :
        \A i \in DataEntries : native.offsets[j + 1] > native.offsets[i + 1]

\* C26: bitset bytes go into alignment padding first: when a bitset byte
\* lies after the last data column, no byte in front of a data column is
\* left as padding.
C26_BitsetFillsPaddingFirst ==
    Built /\ BitsetAfterData =>
        \A i \in DataEntries :
            \A p \in 0..(native.offsets[i + 1] - 1) : Occupied(p)

\* C26 witness: two bitset bytes, one in the gap in front of a data column
\* and one after the last data column.
C26_Witness ==
    /\ Built
    /\ BitsetAfterData
    /\ \E j \in BitsetEntries :
          \E i \in DataEntries : native.offsets[j + 1] < native.offsets[i + 1]
----------------------------------------------------------------------------
\* The row a function returns by expression has the layout of the
\* signature's return value, and a function that returns the Unit immediate
\* has a zero-sized return layout.
ReturnsOfRetLayout ==
    \A b \in DOMAIN function_blocks :
        LET t == function_blocks[b].terminator
        IN  t.kind = "Return" =>
               IF t.value[1] = "Expr"
               THEN /\ t.value[2] \in DOMAIN expr_layouts
                    /\ expr_layouts[t.value[2]] = signature.ret
               ELSE t.value[2][1] = "Unit" =>
                       is_zero_sized(layouts[signature.ret])

\* C27: every emitted return carries as many values as the machine
\* signature declares returns: none for a zero-sized return layout, one
\* otherwise, whether the Return holds a Unit immediate, a scalar immediate
\* or an expression.
C27_ReturnMatchesSignature ==
    ReturnsOfRetLayout =>
        \A c \in 1..Len(block_code) :
            \A k \in 1..Len(block_code[c]) :
                block_code[c][k].op = "return" =>
                    Len(block_code[c][k].args) = Len(clif_sig.returns)
----------------------------------------------------------------------------
\* C28: the physical index stored for every column, Unit columns and a Unit
\* column in last position included, is smaller than the number of physical
\* entries, so that offset_of and type_of index within offsets and types.
C28_IndexMappingsInBounds ==
    Built =>
        \A c \in ColumnIds :
            /\ native.index_mappings[c + 1] < Len(native.offsets)
            /\ native.index_mappings[c + 1] < Len(native.types)
----------------------------------------------------------------------------
\* The byte of memory, as <<region, index>>, that holds the null flag of a
\* column of a row.
FlagByte(row, column) ==
    <<RowRegion(row),
      nullability_of(layouts[layout_id(row)], column)[2] + 1>>

\* The bytes of memory that the k-th expression of the body changed.
Written(k) ==
    LET before == Run(k - 1).mem
        after == Run(k).mem
    IN  {<<r, j>> \in UNION {{r} \X DOMAIN before[r] : r \in DOMAIN before} :
            after[r][j] # before[r][j]}

\* The value the k-th expression of the body, an IsNull, evaluates to.
IsNullResult(k) == Run(k).vals[exprs[body[k].id]]

\* The k-th expression of the body is a lowered expression of the kind.
LoweredAt(k, kind) ==
    /\ k \in 1..Len(insts)
    /\ body[k].kind = kind

\* C29: the code lowered for SetNull(R, c, b) changes no byte of memory but
\* the bitset byte of c and leaves IsNull(R, d) as it was for every other
\* nullable column d, whatever the number of nullable columns; a column set
\* before another column was set still reads as it was set.
C29_SetNullFrame ==
    \A k \in 1..Len(insts) :
        LoweredAt(k, "SetNull") =>
            /\ Written(k) \subseteq {FlagByte(body[k].target, body[k].column)}
            /\ /\ LoweredAt(k - 1, "IsNull") /\ LoweredAt(k + 1, "IsNull")
               /\ body[k - 1].column = body[k + 1].column
               /\ body[k - 1].column # body[k].column
               => IsNullResult(k + 1) = IsNullResult(k - 1)
            /\ /\ LoweredAt(k - 1, "SetNull") /\ LoweredAt(k + 1, "IsNull")
               /\ body[k - 1].column = body[k + 1].column
               /\ body[k - 1].column # body[k].column
               => IsNullResult(k + 1) =
                     IF GivenBool(body[k - 1].is_null, k - 1) THEN 1 ELSE 0
----------------------------------------------------------------------------
\* The pointer values of the readonly parameters.
ReadonlyPointers ==
    {exprs[e] : e \in {p \in DOMAIN function_inputs : FlaggedReadonly(p)}}

\* The instructions emitted so far.
Emitted == UNION {{insts[k][j] : j \in 1..Len(insts[k])} : k \in 1..Len(insts)}

\* C30: in a function lowered without an assertion failure no store and no
\* memory copy writes through the pointer of a readonly parameter, whichever
\* expression the pointer is reached through.
C30_NoWriteThroughReadonly ==
    debug_assertions /\ ~panicked =>
        \A i \in Emitted :
            /\ i.op = "store" => i.addr \notin ReadonlyPointers
            /\ i.op = "memcpy" => i.dest \notin ReadonlyPointers
====
